---- MODULE Spec2Model ----
(***************************************************************************)
(* H-UDP: the selective-repeat sender (sr_sender.py) and receiver          *)
(* (sr_receiver.py), the unreliable channel, and the facade with its       *)
(* dispatcher loops, tracking record and close (game_net_api.py).  Every   *)
(* handler runs with its object's lock held from its first to its last     *)
(* statement, so one handler is one action.  Each specification drives one *)
(* part: SenderSpec, FaultySenderSpec, ClosingSenderSpec, ReceiverSpec,    *)
(* UnreliableSenderSpec, UnreliableReceiverSpec, ApiSenderSpec, FacadeSpec *)
(* and, for both peers and the network, SystemSpec and WrapSpec.  The pure *)
(* functions of packet.py and the sequence comparators are applied to      *)
(* drawn arguments in CodecSpec and CompareSpec.  UnreliableSender.send    *)
(* holds no lock: ConcurrentSendSpec runs it statement by statement from   *)
(* two threads.  LockSpec keeps of every handler only the locks it takes   *)
(* and leaves.                                                             *)
(***************************************************************************)
EXTENDS Integers, Naturals, Sequences, FiniteSets, TLC

\* ---------------------------------------------------------------- constants
WINDOW_SIZE == 32
MAX_RETRIES == 1
\* RETRY_INTERVAL = 0.200 seconds, in milliseconds
RETRY_INTERVAL == 200
MAX_SEQ_NUM == 65536

\* The value SRSender.send returns on a full window (Python None).
WindowFullSentinel == -1

\* packet.MAX_PAYLOAD_SIZE
MAX_PAYLOAD_SIZE == 1391

\* packet.CHANNEL_RELIABLE, packet.CHANNEL_UNRELIABLE
CHANNEL_RELIABLE == 0
CHANNEL_UNRELIABLE == 1

\* A channel byte that is neither of the two channels nor PACKET_TYPE_ACK.
OtherChannel == 3

\* Stands in send_ret / api_ret for a call that ended with the ValueError of
\* encode_data_packet instead of returning.
RaisedValueError == -2

\* Stands in send_ret for a call that ended with the OSError of socket.sendto
\* instead of returning.
RaisedOSError == -3

\* A sender_timeout an application passes that is not the default, in
\* milliseconds (sender_timeout=0.100).
ConfiguredTimeout == 100

\* ------------------------------------------------------------------- bounds
\* Successful SRSender.send calls in one behaviour.
MaxSends == 3
\* Distance of the starting sequence below the 16-bit wrap in the start
\* states that sit just before the wrap.
WrapMargin == 2
\* Sequence numbers 0 .. MaxRecvSeq - 1 arrive at the receiver, besides the
\* ones next to the wrap and one that is WINDOW_SIZE above MaxRecvSeq.
MaxRecvSeq == 3
\* receiver_timeout in periods of the skip checker (time.sleep(0.020)).
ReceiverTimeoutTicks == 2
\* Successful UnreliableSender.send calls in one behaviour.
MaxUnreliableSends == 1
\* Successful UnreliableSender.send calls in one behaviour of the
\* unreliable sender called directly.
MaxUnreliableBurst == 3
\* Successful reliable sends through GameNetAPI.send in one behaviour.
MaxApiSends == 1
\* Calls of GameNetAPI.close in one behaviour.
MaxCloses == 2
\* In the runs of a whole facade: successful reliable sends, sequence
\* numbers 0 .. MaxFacadeSeq - 1 of arriving DATA frames, and unreliable
\* records delivered.
MaxFacadeSends == 1
MaxFacadeSeq == 2
MaxUnreliableRecv == 1
\* Unreliable DATA frames that reach the receiver in one behaviour of the
\* two receivers called directly.
MaxUnreliableArrivals == 3
\* Successful reliable sends in one behaviour of sender, network and
\* receiver together.
MaxSysSends == 1

\* Bytes a datagram loses or gains on its way to the decoder.
MaxTamper == 2
\* Deliveries one handler makes while it holds the protocol lock.
MaxNested == 2

\* How far the comparator arguments reach from 0, from half the sequence
\* space and from its top.
CompareMargin == 2

\* ---------------------------------------------------------------- variables
VARIABLES
    \* SRSender
    send_base,      \* self.send_base
    next_seq,       \* self.next_seq
    send_buffer,    \* self.send_buffer: seq -> PacketInfo.retry_count
    acked,          \* self.acked
    timers,         \* self.timers: seq -> "armed" | "expired" (Timer object state)
    timer_interval, \* seq -> the interval of the Timer in self.timers[seq], in ms
    sender_timeout, \* self.sender_timeout, in ms
    callbacks,      \* seqs whose Timer thread has passed its cancel check and
                    \* is waiting for self.lock inside _on_timeout
    tx,             \* seq -> datagrams written by socket.sendto for the packet
                    \* that currently owns the sequence number
    send_ret,       \* <<return value>> of the last SRSender.send, <<>> before it
    sends,          \* successful sends so far (bounded by MaxSends)
    closed          \* SRSender.close() has returned

VARIABLES
    \* SRReceiver
    rcv_base,       \* self.rcv_base
    rcv_buffer,     \* keys of self.rcv_buffer (payloads are opaque)
    delivered,      \* self.delivered
    waiting_since,  \* self.waiting_since: seq -> skip-check periods elapsed
                    \* since the recorded time, counted up to the timeout
    \* GameNetAPI (receiver role)
    delivery_queue, \* self.delivery_queue: records put by _on_delivery
    app_log,        \* records the application has taken with receive()
    \* observations
    skipped,        \* sequences abandoned by _check_skip_loop
    seen,           \* sequences on_receive has been called with
    last_recv,      \* <<[seq_no, class, ack]>> of the last on_receive: its
                    \* argument, the branch it took, whether it wrote an ACK
    acks_out,       \* ack numbers _send_ack has written to the socket
    u_arrivals      \* sequence numbers UnreliableReceiver.on_receive has
                    \* been called with, in order

VARIABLES
    \* UnreliableSender
    u_next_seq,     \* self.next_seq
    u_tx,           \* [channel_type, seq_no] of the datagrams written by
                    \* UnreliableSender.send since the start state, in order
    u_ret,          \* <<return value>> of the last UnreliableSender.send
    \* GameNetAPI (sender role)
    sent_packets,   \* self.sent_packets: key -> [reliable, acked]
    api_ret         \* <<return value>> of the last GameNetAPI.send, <<>> before

senderVars == <<send_base, next_seq, send_buffer, acked, timers, callbacks, tx,
                send_ret, sends, closed, timer_interval, sender_timeout>>

receiverVars == <<rcv_base, rcv_buffer, delivered, waiting_since,
                  delivery_queue, app_log, skipped, seen, last_recv, acks_out,
                  u_arrivals>>

VARIABLES
    \* GameNetAPI (either role) and its threads
    role,           \* self.role
    has_winerror,   \* whether OSError objects of this platform have .winerror
    running,        \* self.running
    recv_thread,    \* self.recv_thread: "alive" | "exited" | "crashed"
    socket_open,    \* self.socket has not been closed
    rcv_running,    \* SRReceiver.running
    skip_checker,   \* SRReceiver.skip_checker: "alive" | "exited"
    close_calls,    \* calls of GameNetAPI.close that have returned
    close_ret       \* <<outcome>> of the last GameNetAPI.close, <<>> before

VARIABLES
    \* packet.py: one encode_data_packet call and the decode_data_packet call
    \* on the datagram it leads to
    codec_args,     \* [channel_type, seq_no, payload] passed to the encoder
    wire,           \* <<the bytes the encoder returned>>, then <<the
                    \* datagram that recvfrom returns>>; <<>> before the call
    tampered,       \* bytes the datagram has more (less, if negative) than
                    \* what the encoder returned
    decoded,        \* <<the dict decode_data_packet returned>>, <<>> before
    raised          \* the call that raised ValueError: "none" | "encode" |
                    \* "decode"

VARIABLES
    \* sr_receiver.py: one evaluation of the two sequence comparators
    cmp_a,          \* first argument
    cmp_b,          \* second argument
    compared        \* <<[less_than, greater_equal]>>, <<>> before the calls

VARIABLES
    \* application threads inside GameNetAPI.send(data, reliable=False)
    thr_pc,         \* thread -> the statement it has completed: "idle" |
                    \* "numbered" | "written" | "loaded" | "stored" |
                    \* "done", or "raised" when the call left by an exception
    thr_seq,        \* thread -> its local seq_no
    thr_load        \* thread -> the value it computed for self.next_seq

VARIABLES
    \* the locks of one facade and the threads that take them
    lock_owner,     \* "lock" (SRSender.lock or SRReceiver.lock, by role) and
                    \* "tracking_lock" -> the thread inside, or "free"
    lk_pc,          \* thread -> "idle" | "wait_lock" | "in_lock" |
                    \* "wait_nested" | "in_nested" | "wait_tracking" |
                    \* "in_tracking"
    lk_after,       \* thread -> its handler takes tracking_lock after it
                    \* has left the protocol lock
    lk_left         \* thread -> calls of the delivery callback its handler
                    \* has still to make before it leaves the protocol lock

apiVars == <<u_next_seq, u_tx, u_ret, sent_packets, api_ret>>

lifeVars == <<role, has_winerror, running, recv_thread, socket_open,
              rcv_running, skip_checker, close_calls, close_ret>>

codecVars == <<codec_args, wire, tampered, decoded, raised>>

compareVars == <<cmp_a, cmp_b, compared>>

threadVars == <<thr_pc, thr_seq, thr_load>>

lockVars == <<lock_owner, lk_pc, lk_after, lk_left>>

pureVars == <<codecVars, compareVars, threadVars, lockVars>>

objectVars == <<senderVars, receiverVars, apiVars, lifeVars>>

facadeVars == <<apiVars, lifeVars, pureVars>>

vars == <<senderVars, receiverVars, apiVars, lifeVars, pureVars>>

\* ---------------------------------------------------------------- helpers
SeqAdd(a, k) == (a + k) % MAX_SEQ_NUM

\* f with key k removed (del d[k]).
Del(f, k) == [x \in (DOMAIN f) \ {k} |-> f[x]]

\* f with key k set to v (d[k] = v).
Put(f, k, v) == [x \in (DOMAIN f) \cup {k} |-> IF x = k THEN v ELSE f[x]]

EmptyMap == [x \in {} |-> 0]

\* f without the keys outside S.
Restrict(f, S) == [x \in (DOMAIN f) \cap S |-> f[x]]

\* ------------------------------------------------------------------ SRSender
\* used = (self.next_seq - self.send_base) % pkt.MAX_SEQ_NUM
Used == (next_seq - send_base) % MAX_SEQ_NUM

\* Mutant: the window test lets one more sequence in.
WindowFullMut == Used > WINDOW_SIZE

\* if used >= WINDOW_SIZE: return None
WindowFull == Used >= WINDOW_SIZE

\* _slide_window: the value of send_base when the while loop ends.
RECURSIVE SlideFrom(_, _, _, _)
SlideFrom(base, nxt, buf, ack) ==
    IF (base \in ack \/ base \notin DOMAIN buf) /\ base # nxt
    THEN SlideFrom(SeqAdd(base, 1), nxt, buf, ack)
    ELSE base

SlideWindow(buf, ack) == SlideFrom(send_base, next_seq, buf, ack)

\* Mutant: the sequence number is consumed before the window test.
SendFullMut ==
    /\ WindowFull
    /\ send_ret' = <<WindowFullSentinel>>
    /\ next_seq' = SeqAdd(next_seq, 1)
    /\ UNCHANGED <<send_base, send_buffer, acked, timers, callbacks, tx, sends,
                   closed>>
    /\ UNCHANGED receiverVars
    /\ UNCHANGED <<timer_interval, sender_timeout>>

\* SRSender.send on a full window: returns None and changes nothing.
SendFull ==
    /\ WindowFull
    /\ send_ret' = <<WindowFullSentinel>>
    /\ UNCHANGED <<send_base, next_seq, send_buffer, acked, timers, callbacks,
                   tx, sends, closed>>
    /\ UNCHANGED receiverVars
    /\ UNCHANGED <<timer_interval, sender_timeout>>

\* SRSender.send with room in the window.
SendOk ==
    /\ ~WindowFull
    /\ sends < MaxSends
    /\ LET seq_no == next_seq IN
        /\ tx' = Put(tx, seq_no, 1)
        /\ send_buffer' = Put(send_buffer, seq_no, 0)
        /\ timers' = Put(timers, seq_no, "armed")
        /\ next_seq' = SeqAdd(next_seq, 1)
        /\ send_ret' = <<seq_no>>
    /\ sends' = sends + 1
    /\ UNCHANGED <<send_base, acked, callbacks, closed>>
    /\ UNCHANGED receiverVars
    /\ timer_interval' = Put(timer_interval, next_seq, RETRY_INTERVAL)
    /\ UNCHANGED sender_timeout

\* encode_data_packet: if len(payload) > MAX_PAYLOAD_SIZE: raise ValueError
EncodeRaises(len) == len > MAX_PAYLOAD_SIZE

\* Payload lengths the application passes to send: the largest that fits and
\* the smallest that does not.
PayloadLens == {MAX_PAYLOAD_SIZE, MAX_PAYLOAD_SIZE + 1}

\* Mutant: the sequence number is taken before the payload is encoded.
SendTooLargeMut ==
    /\ ~WindowFull
    /\ send_ret' = <<RaisedValueError>>
    /\ next_seq' = SeqAdd(next_seq, 1)
    /\ UNCHANGED <<send_base, send_buffer, acked, timers, callbacks, tx, sends,
                   closed>>
    /\ UNCHANGED receiverVars
    /\ UNCHANGED <<timer_interval, sender_timeout>>

\* SRSender.send with room in the window and a payload encode_data_packet
\* refuses: the ValueError leaves send before sendto, the buffer entry, the
\* timer and the increment of next_seq.
SendTooLarge ==
    /\ ~WindowFull
    /\ send_ret' = <<RaisedValueError>>
    /\ UNCHANGED <<send_base, next_seq, send_buffer, acked, timers, callbacks,
                   tx, sends, closed>>
    /\ UNCHANGED receiverVars
    /\ UNCHANGED <<timer_interval, sender_timeout>>

\* SRSender.send(payload) with len(payload) = len: the window test comes
\* first, then the encoding.
SrSend(len) ==
    \/ SendFull
    \/ EncodeRaises(len) /\ SendTooLarge
    \/ ~EncodeRaises(len) /\ SendOk

\* ACK numbers the dispatcher may hand to on_ack: every sequence from one
\* below send_base to next_seq (stale, live, duplicate and not yet sent).
AckInputs == {SeqAdd(send_base, d) : d \in -1..(Used + 1)}

\* The part of the sender state on_ack reads and writes.
AckState == [send_base |-> send_base, next_seq |-> next_seq,
             send_buffer |-> send_buffer, acked |-> acked, timers |-> timers]

\* if ack_no in self.acked: return / if ack_no not in self.send_buffer: return
AckIgnored(s, ack_no) == ack_no \in s.acked \/ ack_no \notin DOMAIN s.send_buffer

\* Mutant: self.acked.add(ack_no) runs before the two early returns.
AckEffectMut(s, ack_no) ==
    IF AckIgnored(s, ack_no)
    THEN [s EXCEPT !.acked = s.acked \cup {ack_no}]
    ELSE LET buf == Del(s.send_buffer, ack_no)
             ack == s.acked \cup {ack_no}
         IN [s EXCEPT !.acked = ack,
                      !.timers = Del(s.timers, ack_no),
                      !.send_buffer = buf,
                      !.send_base = SlideFrom(s.send_base, s.next_seq, buf, ack)]

\* SRSender.on_ack(ack_no) as a function of the state it runs in.
AckEffect(s, ack_no) ==
    IF AckIgnored(s, ack_no)
    THEN s
    ELSE LET buf == Del(s.send_buffer, ack_no)
             ack == s.acked \cup {ack_no}
         IN [s EXCEPT !.acked = ack,
                      !.timers = Del(s.timers, ack_no),
                      !.send_buffer = buf,
                      !.send_base = SlideFrom(s.send_base, s.next_seq, buf, ack)]

\* SRSender.on_ack(ack_no)
OnAck(ack_no) ==
    LET t == AckEffect(AckState, ack_no) IN
    /\ send_base' = t.send_base
    /\ send_buffer' = t.send_buffer
    /\ acked' = t.acked
    /\ timers' = t.timers
    /\ UNCHANGED <<next_seq, callbacks, tx, send_ret, sends, closed>>
    /\ UNCHANGED receiverVars
    /\ timer_interval' = Restrict(timer_interval, DOMAIN t.timers)
    /\ UNCHANGED sender_timeout

\* threading.Timer.run: the interval elapsed and cancel() has not been called;
\* the thread goes on to call _on_timeout.
TimerFire(seq_no) ==
    /\ seq_no \in DOMAIN timers
    /\ timers[seq_no] = "armed"
    /\ timers' = [timers EXCEPT ![seq_no] = "expired"]
    /\ callbacks' = callbacks \cup {seq_no}
    /\ UNCHANGED <<send_base, next_seq, send_buffer, acked, tx, send_ret, sends,
                   closed>>
    /\ UNCHANGED receiverVars
    /\ UNCHANGED <<timer_interval, sender_timeout>>

\* Mutant: a callback that finds its sequence acked or gone arms a new Timer.
OnTimeoutMut(seq_no) ==
    /\ seq_no \in callbacks
    /\ callbacks' = callbacks \ {seq_no}
    /\ UNCHANGED receiverVars
    /\ UNCHANGED sender_timeout
    /\ IF seq_no \in acked \/ seq_no \notin DOMAIN send_buffer
       THEN /\ timers' = Put(timers, seq_no, "armed")
            /\ timer_interval' = Put(timer_interval, seq_no, sender_timeout)
            /\ UNCHANGED <<send_base, next_seq, send_buffer, acked, tx,
                           send_ret, sends, closed>>
       ELSE IF send_buffer[seq_no] >= MAX_RETRIES
       THEN LET buf == Del(send_buffer, seq_no) IN
            /\ timers' = Del(timers, seq_no)
            /\ timer_interval' = Del(timer_interval, seq_no)
            /\ send_buffer' = buf
            /\ send_base' = SlideWindow(buf, acked)
            /\ UNCHANGED <<next_seq, acked, tx, send_ret, sends, closed>>
       ELSE /\ send_buffer' = [send_buffer EXCEPT ![seq_no] = @ + 1]
            /\ tx' = [tx EXCEPT ![seq_no] = @ + 1]
            /\ timers' = Put(timers, seq_no, "armed")
            /\ timer_interval' = Put(timer_interval, seq_no, sender_timeout)
            /\ UNCHANGED <<send_base, next_seq, acked, send_ret, sends, closed>>

\* SRSender._on_timeout(seq_no), run by a Timer thread once it holds the lock.
OnTimeout(seq_no) ==
    /\ seq_no \in callbacks
    /\ callbacks' = callbacks \ {seq_no}
    /\ UNCHANGED receiverVars
    /\ UNCHANGED sender_timeout
    /\ IF seq_no \in acked \/ seq_no \notin DOMAIN send_buffer
       THEN UNCHANGED <<send_base, next_seq, send_buffer, acked, timers, tx,
                        send_ret, sends, closed, timer_interval>>
       ELSE IF send_buffer[seq_no] >= MAX_RETRIES
       THEN LET buf == Del(send_buffer, seq_no) IN
            /\ timers' = Del(timers, seq_no)
            /\ timer_interval' = Del(timer_interval, seq_no)
            /\ send_buffer' = buf
            /\ send_base' = SlideWindow(buf, acked)
            /\ UNCHANGED <<next_seq, acked, tx, send_ret, sends, closed>>
       ELSE /\ send_buffer' = [send_buffer EXCEPT ![seq_no] = @ + 1]
            /\ tx' = [tx EXCEPT ![seq_no] = @ + 1]
            /\ timers' = Put(timers, seq_no, "armed")
            /\ timer_interval' = Put(timer_interval, seq_no, sender_timeout)
            /\ UNCHANGED <<send_base, next_seq, acked, send_ret, sends, closed>>

\* SRSender.send with room in the window when socket.sendto raises: the
\* OSError leaves send before the buffer entry, the timer and the increment
\* of next_seq.
SendSockFail ==
    /\ ~WindowFull
    /\ send_ret' = <<RaisedOSError>>
    /\ UNCHANGED <<send_base, next_seq, send_buffer, acked, timers, callbacks,
                   tx, sends, closed>>
    /\ UNCHANGED receiverVars
    /\ UNCHANGED <<timer_interval, sender_timeout>>

\* SRSender._on_timeout(seq_no) on the retry branch when socket.sendto raises:
\* retry_count has been incremented, the OSError ends the Timer thread before
\* the new Timer is created, and self.timers keeps the expired one.
OnTimeoutSockFail(seq_no) ==
    /\ seq_no \in callbacks
    /\ seq_no \notin acked
    /\ seq_no \in DOMAIN send_buffer
    /\ send_buffer[seq_no] < MAX_RETRIES
    /\ callbacks' = callbacks \ {seq_no}
    /\ send_buffer' = [send_buffer EXCEPT ![seq_no] = @ + 1]
    /\ UNCHANGED <<send_base, next_seq, acked, timers, tx, send_ret, sends,
                   closed>>
    /\ UNCHANGED receiverVars
    /\ UNCHANGED <<timer_interval, sender_timeout>>

\* SRSender.close(): every Timer is cancelled and self.timers is cleared;
\* send_buffer is kept, and a Timer thread that is already waiting for the
\* lock is not affected by cancel().
SenderClose ==
    /\ timers' = EmptyMap
    /\ closed' = TRUE
    /\ UNCHANGED <<send_base, next_seq, send_buffer, acked, callbacks, tx,
                   send_ret, sends>>
    /\ UNCHANGED receiverVars
    /\ timer_interval' = EmptyMap
    /\ UNCHANGED sender_timeout

\* ---------------------------------------------------------------- SRReceiver
\* Mutant: a difference of exactly half the sequence space counts as less.
SeqLessThanMut(seq_a, seq_b) ==
    ((seq_a - seq_b) % MAX_SEQ_NUM) >= (MAX_SEQ_NUM \div 2)

\* _seq_less_than(seq_a, seq_b)
SeqLessThan(seq_a, seq_b) ==
    ((seq_a - seq_b) % MAX_SEQ_NUM) > (MAX_SEQ_NUM \div 2)

\* _seq_greater_equal(seq_a, seq_b)
SeqGreaterEqual(seq_a, seq_b) ==
    ((seq_a - seq_b) % MAX_SEQ_NUM) < (MAX_SEQ_NUM \div 2)

\* The part of the receiver state the handlers read and write; out is the
\* list of records handed to delivery_callback by the running handler.
RcvState == [rcv_base |-> rcv_base, rcv_buffer |-> rcv_buffer,
             delivered |-> delivered, waiting_since |-> waiting_since,
             out |-> <<>>]

\* A delivery record as _on_delivery tags it.
Reliable(seq_no) == [channel |-> "reliable", seq_no |-> seq_no]

\* _deliver_packet(seq_no, ...)
DeliverPacket(r, seq_no) ==
    [r EXCEPT !.delivered = r.delivered \cup {seq_no},
              !.out = Append(r.out, Reliable(seq_no))]

\* _deliver_buffered()
RECURSIVE DeliverBuffered(_)
DeliverBuffered(r) ==
    IF r.rcv_base \in r.rcv_buffer
    THEN LET d == DeliverPacket(r, r.rcv_base) IN
         DeliverBuffered([d EXCEPT
             !.rcv_buffer = d.rcv_buffer \ {r.rcv_base},
             !.waiting_since = Del(d.waiting_since, r.rcv_base),
             !.rcv_base = SeqAdd(r.rcv_base, 1)])
    ELSE r

\* Mutant: the window test lets in the sequence WINDOW_SIZE above rcv_base.
ClassifyMut(r, seq_no) ==
    IF seq_no \in r.delivered THEN "duplicate"
    ELSE IF SeqLessThan(seq_no, r.rcv_base) THEN "old"
    ELSE IF SeqGreaterEqual(seq_no, r.rcv_base + WINDOW_SIZE + 1) THEN "reject"
    ELSE IF seq_no = r.rcv_base THEN "in_order"
    ELSE "buffer"

\* The branch on_receive takes for seq_no.
Classify(r, seq_no) ==
    IF seq_no \in r.delivered THEN "duplicate"
    ELSE IF SeqLessThan(seq_no, r.rcv_base) THEN "old"
    ELSE IF SeqGreaterEqual(seq_no, r.rcv_base + WINDOW_SIZE) THEN "reject"
    ELSE IF seq_no = r.rcv_base THEN "in_order"
    ELSE "buffer"

\* Mutant: the buffer is drained before the arriving packet is delivered.
ReceiveInOrderMut(r, seq_no) ==
    LET w == [r EXCEPT !.waiting_since = Del(r.waiting_since, r.rcv_base),
                       !.rcv_base = SeqAdd(r.rcv_base, 1)]
    IN DeliverPacket(DeliverBuffered(w), seq_no)

\* on_receive, seq_no == self.rcv_base
ReceiveInOrder(r, seq_no) ==
    LET w == [r EXCEPT !.waiting_since = Del(r.waiting_since, r.rcv_base)]
        d == DeliverPacket(w, seq_no)
    IN DeliverBuffered([d EXCEPT !.rcv_base = SeqAdd(d.rcv_base, 1)])

\* Mutant: the wait for rcv_base is recorded but the packet is not buffered.
ReceiveBufferWaitMut(r, seq_no) ==
    [r EXCEPT !.waiting_since = IF r.rcv_base \in DOMAIN r.waiting_since
                                THEN r.waiting_since
                                ELSE Put(r.waiting_since, r.rcv_base, 0)]

\* Mutant: an out-of-order packet is handed up on arrival and buffered too.
ReceiveBufferMut(r, seq_no) ==
    LET d == DeliverPacket(r, seq_no) IN
    [d EXCEPT !.rcv_buffer = d.rcv_buffer \cup {seq_no},
              !.waiting_since = IF d.rcv_base \in DOMAIN d.waiting_since
                                THEN d.waiting_since
                                ELSE Put(d.waiting_since, d.rcv_base, 0)]

\* on_receive, seq_no in the window above self.rcv_base
ReceiveBuffer(r, seq_no) ==
    [r EXCEPT !.rcv_buffer = r.rcv_buffer \cup {seq_no},
              !.waiting_since = IF r.rcv_base \in DOMAIN r.waiting_since
                                THEN r.waiting_since
                                ELSE Put(r.waiting_since, r.rcv_base, 0)]

\* Mutant: a packet already delivered is dropped without a new ACK.
AcksClassNoReAckMut(class) == class \notin {"reject", "duplicate"}

\* Mutant: a packet below rcv_base is dropped without an ACK.
AcksClassOldMut(class) == class \notin {"reject", "old"}

\* Mutant: a packet above the window is ACKed like any other.
AcksClassRejectMut(class) == TRUE

\* Does on_receive call _send_ack for a packet of this class?
AcksClass(class) == class # "reject"

\* SRReceiver.on_receive as a function of the state it runs in.
ReceiveEffect(r, seq_no) ==
    LET class == Classify(r, seq_no) IN
    IF class = "in_order" THEN ReceiveInOrder(r, seq_no)
    ELSE IF class = "buffer" THEN ReceiveBuffer(r, seq_no)
    ELSE r

\* Sequence numbers the network hands to on_receive.
RecvInputs ==
    (0..(MaxRecvSeq - 1)) \cup {MaxRecvSeq + WINDOW_SIZE}
        \cup ((MAX_SEQ_NUM - WrapMargin)..(MAX_SEQ_NUM - 1))

\* Write a handler's result back: the deliveries reach _on_delivery, which
\* puts them on the delivery queue.
RcvCommit(t) ==
    /\ rcv_base' = t.rcv_base
    /\ rcv_buffer' = t.rcv_buffer
    /\ delivered' = t.delivered
    /\ waiting_since' = t.waiting_since
    /\ delivery_queue' = delivery_queue \o t.out

\* SRReceiver.on_receive(packet_data, sender_addr)
OnReceive(seq_no) ==
    /\ seen' = seen \cup {seq_no}
    /\ last_recv' = <<[seq_no |-> seq_no,
                       class |-> Classify(RcvState, seq_no),
                       ack |-> AcksClass(Classify(RcvState, seq_no))]>>
    /\ acks_out' = IF AcksClass(Classify(RcvState, seq_no))
                   THEN acks_out \cup {seq_no}
                   ELSE acks_out
    /\ RcvCommit(ReceiveEffect(RcvState, seq_no))
    /\ UNCHANGED <<app_log, skipped, u_arrivals>>
    /\ UNCHANGED senderVars

\* One period of the skip checker's sleep goes by.
Tick ==
    /\ \E k \in DOMAIN waiting_since : waiting_since[k] < ReceiverTimeoutTicks
    /\ waiting_since' = [k \in DOMAIN waiting_since |->
                            IF waiting_since[k] < ReceiverTimeoutTicks
                            THEN waiting_since[k] + 1
                            ELSE waiting_since[k]]
    /\ UNCHANGED <<rcv_base, rcv_buffer, delivered, delivery_queue, app_log,
                   skipped, seen, last_recv, acks_out, u_arrivals>>
    /\ UNCHANGED senderVars

\* if self.rcv_base in self.waiting_since and wait_time >= self.receiver_timeout
SkipDue(r) ==
    /\ r.rcv_base \in DOMAIN r.waiting_since
    /\ r.waiting_since[r.rcv_base] >= ReceiverTimeoutTicks

\* Mutant: the skip leaves the waiting_since entry of the abandoned sequence.
SkipEffectMut(r) ==
    DeliverBuffered([r EXCEPT !.rcv_base = SeqAdd(r.rcv_base, 1)])

\* Mutant: the skip records the abandoned sequence as delivered.
SkipEffectMarkMut(r) ==
    DeliverBuffered([r EXCEPT
        !.waiting_since = Del(r.waiting_since, r.rcv_base),
        !.delivered = r.delivered \cup {r.rcv_base},
        !.rcv_base = SeqAdd(r.rcv_base, 1)])

\* The body of _check_skip_loop when the skip is due.
SkipEffect(r) ==
    DeliverBuffered([r EXCEPT
        !.waiting_since = Del(r.waiting_since, r.rcv_base),
        !.rcv_base = SeqAdd(r.rcv_base, 1)])

\* One iteration of _check_skip_loop that finds the skip due (an iteration
\* that does not changes nothing).
CheckSkip ==
    /\ SkipDue(RcvState)
    /\ skipped' = skipped \cup {rcv_base}
    /\ RcvCommit(SkipEffect(RcvState))
    /\ UNCHANGED <<app_log, seen, last_recv, acks_out, u_arrivals>>
    /\ UNCHANGED senderVars

\* Mutant: the delivery queue hands out its newest record first.
ReceiveMut ==
    /\ delivery_queue # <<>>
    /\ app_log' = Append(app_log, delivery_queue[Len(delivery_queue)])
    /\ delivery_queue' = SubSeq(delivery_queue, 1, Len(delivery_queue) - 1)
    /\ UNCHANGED <<rcv_base, rcv_buffer, delivered, waiting_since, skipped,
                   seen, last_recv, acks_out, u_arrivals>>
    /\ UNCHANGED senderVars

\* GameNetAPI.receive() returning a record (queue.get).
Receive ==
    /\ delivery_queue # <<>>
    /\ app_log' = Append(app_log, Head(delivery_queue))
    /\ delivery_queue' = Tail(delivery_queue)
    /\ UNCHANGED <<rcv_base, rcv_buffer, delivered, waiting_since, skipped,
                   seen, last_recv, acks_out, u_arrivals>>
    /\ UNCHANGED senderVars

\* ---------------------------------------------------------- UnreliableSender
\* What UnreliableSender.send hands back for a payload of this length.
UnreliableRet(len) ==
    IF EncodeRaises(len) THEN RaisedValueError ELSE u_next_seq

\* Mutant: next_seq is advanced without the modulo.
UnreliableSendMut(len) ==
    /\ IF EncodeRaises(len)
       THEN UNCHANGED <<u_next_seq, u_tx>>
       ELSE /\ u_tx' = Append(u_tx, [channel_type |-> CHANNEL_UNRELIABLE,
                                     seq_no |-> u_next_seq])
            /\ u_next_seq' = u_next_seq + 1
    /\ u_ret' = <<UnreliableRet(len)>>
    /\ UNCHANGED senderVars
    /\ UNCHANGED receiverVars

\* UnreliableSender.send(payload) with len(payload) = len
UnreliableSend(len) ==
    /\ IF EncodeRaises(len)
       THEN UNCHANGED <<u_next_seq, u_tx>>
       ELSE /\ u_tx' = Append(u_tx, [channel_type |-> CHANNEL_UNRELIABLE,
                                     seq_no |-> u_next_seq])
            /\ u_next_seq' = SeqAdd(u_next_seq, 1)
    /\ u_ret' = <<UnreliableRet(len)>>
    /\ UNCHANGED senderVars
    /\ UNCHANGED receiverVars

\* UnreliableSender.send when socket.sendto raises OSError: the exception
\* leaves send before next_seq is advanced.
UnreliableSendSockFail ==
    /\ u_ret' = <<RaisedOSError>>
    /\ UNCHANGED <<u_next_seq, u_tx>>
    /\ UNCHANGED senderVars
    /\ UNCHANGED receiverVars

\* The application threads that call GameNetAPI.send(data, reliable=False)
\* at the same time. UnreliableSender.send takes no lock, so the statements
\* of the two calls interleave; each action below is one statement of one
\* thread.
Threads == {1, 2}

\* seq_no = self.next_seq
ThreadNumber(t) ==
    /\ thr_pc[t] = "idle"
    /\ thr_pc' = [thr_pc EXCEPT ![t] = "numbered"]
    /\ thr_seq' = [thr_seq EXCEPT ![t] = u_next_seq]
    /\ UNCHANGED <<thr_load, apiVars>>

\* packet_bytes = pkt.encode_data_packet(...); self.socket.sendto(...)
ThreadSendto(t) ==
    /\ thr_pc[t] = "numbered"
    /\ thr_pc' = [thr_pc EXCEPT ![t] = "written"]
    /\ u_tx' = Append(u_tx, [channel_type |-> CHANNEL_UNRELIABLE,
                             seq_no |-> thr_seq[t]])
    /\ UNCHANGED <<thr_seq, thr_load, u_next_seq, u_ret, sent_packets,
                   api_ret>>

\* pkt.encode_data_packet(...) for a payload above MAX_PAYLOAD_SIZE: the
\* ValueError leaves UnreliableSender.send and GameNetAPI.send.
ThreadEncodeRaises(t) ==
    /\ thr_pc[t] = "numbered"
    /\ thr_pc' = [thr_pc EXCEPT ![t] = "raised"]
    /\ u_ret' = <<RaisedValueError>>
    /\ api_ret' = <<RaisedValueError>>
    /\ UNCHANGED <<thr_seq, thr_load, u_next_seq, u_tx, sent_packets>>

\* (self.next_seq + 1) % pkt.MAX_SEQ_NUM, the right-hand side evaluated
ThreadLoad(t) ==
    /\ thr_pc[t] = "written"
    /\ thr_pc' = [thr_pc EXCEPT ![t] = "loaded"]
    /\ thr_load' = [thr_load EXCEPT ![t] = SeqAdd(u_next_seq, 1)]
    /\ UNCHANGED <<thr_seq, apiVars>>

\* self.next_seq = <the value computed>; return seq_no
ThreadStore(t) ==
    /\ thr_pc[t] = "loaded"
    /\ thr_pc' = [thr_pc EXCEPT ![t] = "stored"]
    /\ u_next_seq' = thr_load[t]
    /\ u_ret' = <<thr_seq[t]>>
    /\ UNCHANGED <<thr_seq, thr_load, u_tx, sent_packets, api_ret>>

\* GameNetAPI.send after the sub-sender returned: the tracking record is
\* written with self.tracking_lock held, then seq_no is returned.
ThreadTrack(t) ==
    /\ thr_pc[t] = "stored"
    /\ thr_pc' = [thr_pc EXCEPT ![t] = "done"]
    /\ sent_packets' = Put(sent_packets, thr_seq[t],
                           [reliable |-> FALSE, acked |-> FALSE])
    /\ api_ret' = <<thr_seq[t]>>
    /\ UNCHANGED <<thr_seq, thr_load, u_next_seq, u_tx, u_ret>>

\* ------------------------------------------------- locks of one facade
\* self.lock of the SRSender or SRReceiver the facade owns, and
\* GameNetAPI.tracking_lock; both are threading.Lock, not re-entrant.
Locks == {"lock", "tracking_lock"}

\* The threads of a facade: the application's, the dispatcher (recv_thread),
\* a Timer thread in _on_timeout, the skip checker.
LockThreads == {"app", "dispatcher", "timer", "skip"}

\* What a thread at rest does next, by role: the lock its handler enters
\* first, whether tracking_lock follows after the protocol lock is left,
\* and how often the delivery callback runs inside the protocol lock.
LockCalls(t) ==
    IF role = "sender" THEN
        IF t = "app" THEN
            \* send(reliable=True); send(reliable=False) and
            \* get_delivery_stats; SRSender.close and get_window_space
            {[enter |-> "lock", after |-> TRUE, nest |-> 0],
             [enter |-> "tracking_lock", after |-> FALSE, nest |-> 0],
             [enter |-> "lock", after |-> FALSE, nest |-> 0]}
        ELSE IF t = "dispatcher" THEN
            \* on_ack, then the tracking record
            {[enter |-> "lock", after |-> TRUE, nest |-> 0]}
        ELSE IF t = "timer" THEN
            \* _on_timeout
            {[enter |-> "lock", after |-> FALSE, nest |-> 0]}
        ELSE {}
    ELSE
        IF t = "app" THEN
            \* get_delivery_stats, clear_tracking_data
            {[enter |-> "tracking_lock", after |-> FALSE, nest |-> 0]}
        ELSE IF t = "dispatcher" THEN
            \* SRReceiver.on_receive with n deliveries;
            \* UnreliableReceiver.on_receive, which takes no protocol lock
            {[enter |-> "lock", after |-> FALSE, nest |-> n] :
                 n \in 0..MaxNested}
                \cup {[enter |-> "tracking_lock", after |-> FALSE, nest |-> 0]}
        ELSE IF t = "skip" THEN
            \* _check_skip_loop: no skip due, or a skip with n deliveries
            {[enter |-> "lock", after |-> FALSE, nest |-> n] :
                 n \in 0..MaxNested}
        ELSE {}

\* A thread reaches the with-statement of its handler.
LkCall(t, c) ==
    /\ lk_pc[t] = "idle"
    /\ lk_pc' = [lk_pc EXCEPT ![t] =
                    IF c.enter = "lock" THEN "wait_lock" ELSE "wait_tracking"]
    /\ lk_after' = [lk_after EXCEPT ![t] = c.after]
    /\ lk_left' = [lk_left EXCEPT ![t] = c.nest]
    /\ UNCHANGED lock_owner

\* with self.lock: entered
LkAcquire(t) ==
    /\ lk_pc[t] = "wait_lock"
    /\ lock_owner["lock"] = "free"
    /\ lock_owner' = [lock_owner EXCEPT !["lock"] = t]
    /\ lk_pc' = [lk_pc EXCEPT ![t] = "in_lock"]
    /\ UNCHANGED <<lk_after, lk_left>>

\* _deliver_packet calls self.delivery_callback inside the protocol lock:
\* _on_delivery reaches with self.tracking_lock.
LkDeliver(t) ==
    /\ lk_pc[t] = "in_lock"
    /\ lk_left[t] > 0
    /\ lk_pc' = [lk_pc EXCEPT ![t] = "wait_nested"]
    /\ UNCHANGED <<lock_owner, lk_after, lk_left>>

\* _on_delivery: with self.tracking_lock entered, the protocol lock held
LkAcquireNested(t) ==
    /\ lk_pc[t] = "wait_nested"
    /\ lock_owner["tracking_lock"] = "free"
    /\ lock_owner' = [lock_owner EXCEPT !["tracking_lock"] = t]
    /\ lk_pc' = [lk_pc EXCEPT ![t] = "in_nested"]
    /\ UNCHANGED <<lk_after, lk_left>>

\* _on_delivery: with self.tracking_lock left, delivery_queue.put, return
LkReleaseNested(t) ==
    /\ lk_pc[t] = "in_nested"
    /\ lock_owner' = [lock_owner EXCEPT !["tracking_lock"] = "free"]
    /\ lk_pc' = [lk_pc EXCEPT ![t] = "in_lock"]
    /\ lk_left' = [lk_left EXCEPT ![t] = @ - 1]
    /\ UNCHANGED lk_after

\* with self.lock: left (by its end, a return or an exception)
LkRelease(t) ==
    /\ lk_pc[t] = "in_lock"
    /\ lk_left[t] = 0
    /\ lock_owner' = [lock_owner EXCEPT !["lock"] = "free"]
    /\ lk_pc' = [lk_pc EXCEPT ![t] =
                    IF lk_after[t] THEN "wait_tracking" ELSE "idle"]
    /\ UNCHANGED <<lk_after, lk_left>>

\* Mutant: the tracking section calls into the protocol object.
LkAcquireTrackingMut(t) ==
    /\ lk_pc[t] = "wait_tracking"
    /\ lock_owner["tracking_lock"] = "free"
    /\ lock_owner' = [lock_owner EXCEPT !["tracking_lock"] = t]
    /\ lk_pc' = [lk_pc EXCEPT ![t] = "wait_lock"]
    /\ UNCHANGED <<lk_after, lk_left>>

\* with self.tracking_lock: entered, no other lock held
LkAcquireTracking(t) ==
    /\ lk_pc[t] = "wait_tracking"
    /\ lock_owner["tracking_lock"] = "free"
    /\ lock_owner' = [lock_owner EXCEPT !["tracking_lock"] = t]
    /\ lk_pc' = [lk_pc EXCEPT ![t] = "in_tracking"]
    /\ UNCHANGED <<lk_after, lk_left>>

\* with self.tracking_lock: left
LkReleaseTracking(t) ==
    /\ lk_pc[t] = "in_tracking"
    /\ lock_owner' = [lock_owner EXCEPT !["tracking_lock"] = "free"]
    /\ lk_pc' = [lk_pc EXCEPT ![t] = "idle"]
    /\ UNCHANGED <<lk_after, lk_left>>

\* ------------------------------------------------- GameNetAPI, sender role
\* with self.tracking_lock: self.sent_packets[seq_no] = {...}; not reached
\* when the sub-sender raised.
Track(ret, reliable) ==
    IF ret = RaisedValueError
    THEN sent_packets
    ELSE Put(sent_packets, ret, [reliable |-> reliable, acked |-> FALSE])

\* GameNetAPI.send(data, reliable) on the sender role, len(payload) = len
ApiSend(len, reliable) ==
    /\ IF reliable
       THEN /\ SrSend(len)
            /\ api_ret' = send_ret'
            /\ UNCHANGED <<u_next_seq, u_tx, u_ret>>
       ELSE /\ UnreliableSend(len)
            /\ api_ret' = u_ret'
    /\ sent_packets' = Track(api_ret'[1], reliable)

\* _sender_recv_loop, one datagram that is an ACK frame: on_ack, then the
\* tracking record of that key is marked.
DispatchAck(ack_no) ==
    /\ OnAck(ack_no)
    /\ sent_packets' = IF ack_no \in DOMAIN sent_packets
                       THEN [sent_packets EXCEPT ![ack_no].acked = TRUE]
                       ELSE sent_packets
    /\ UNCHANGED <<u_next_seq, u_tx, u_ret, api_ret>>

\* --------------------------------------------------------- UnreliableReceiver
\* A delivery record as _on_delivery tags it.
Unreliable(seq_no) == [channel |-> "unreliable", seq_no |-> seq_no]

\* The records of log that _on_delivery tagged unreliable.
UnreliableOf(log) == SelectSeq(log, LAMBDA rec : rec.channel = "unreliable")

\* Mutant: a sequence number already handed up is not handed up again.
UnreliableReceiveMut(seq_no) ==
    /\ u_arrivals' = Append(u_arrivals, seq_no)
    /\ delivery_queue' =
          IF \E i \in 1..Len(u_arrivals) : u_arrivals[i] = seq_no
          THEN delivery_queue
          ELSE Append(delivery_queue, Unreliable(seq_no))
    /\ UNCHANGED <<rcv_base, rcv_buffer, delivered, waiting_since, app_log,
                   skipped, seen, last_recv, acks_out>>
    /\ UNCHANGED senderVars

\* UnreliableReceiver.on_receive(packet_data): one record to _on_delivery.
UnreliableReceive(seq_no) ==
    /\ u_arrivals' = Append(u_arrivals, seq_no)
    /\ delivery_queue' = Append(delivery_queue, Unreliable(seq_no))
    /\ UNCHANGED <<rcv_base, rcv_buffer, delivered, waiting_since, app_log,
                   skipped, seen, last_recv, acks_out>>
    /\ UNCHANGED senderVars

\* ------------------------------------- GameNetAPI: dispatcher loops and close
\* The dispatcher thread is inside its while loop.
Dispatching == recv_thread = "alive"

\* _sender_recv_loop receives an ACK frame.
SenderRecvAck(ack_no) ==
    /\ role = "sender"
    /\ Dispatching
    /\ DispatchAck(ack_no)
    /\ UNCHANGED <<lifeVars, pureVars>>

\* _sender_recv_loop receives a well-formed datagram that is no ACK frame:
\* is_ack_packet is false and the iteration ends.
SenderRecvData ==
    /\ role = "sender"
    /\ Dispatching
    /\ UNCHANGED vars

\* _receiver_recv_loop receives an ACK frame: continue.
ReceiverRecvAck ==
    /\ role = "receiver"
    /\ Dispatching
    /\ UNCHANGED vars

\* Channel bytes of arriving DATA frames.
Channels == {CHANNEL_RELIABLE, CHANNEL_UNRELIABLE, OtherChannel}

\* Mutant: a frame of an unknown channel is treated as a reliable one.
ReceiverRecvDataMut(channel, seq_no) ==
    /\ role = "receiver"
    /\ Dispatching
    /\ IF channel = CHANNEL_UNRELIABLE
       THEN UnreliableReceive(seq_no)
       ELSE OnReceive(seq_no)
    /\ UNCHANGED facadeVars

\* _receiver_recv_loop receives a well-formed DATA frame.
ReceiverRecvData(channel, seq_no) ==
    /\ role = "receiver"
    /\ Dispatching
    /\ IF channel = CHANNEL_RELIABLE
       THEN OnReceive(seq_no)
       ELSE IF channel = CHANNEL_UNRELIABLE
       THEN UnreliableReceive(seq_no)
       ELSE UNCHANGED <<senderVars, receiverVars>>
    /\ UNCHANGED facadeVars

\* What can be raised inside the try block of a dispatcher iteration:
\* socket.timeout, ConnectionResetError and another OSError from recvfrom, and
\* the ValueError of a decoder (malformed datagram).
DispatchErrors == {"timeout", "reset", "oserror", "malformed"}

\* Does the except chain of the loop end the iteration normally?  The
\* OSError clause evaluates e.winerror, which raises AttributeError out of
\* the handler where OSError has no such attribute.
ErrorCaught(err) == err # "oserror" \/ has_winerror

\* A dispatcher iteration of either role in which err is raised.
DispatchError(err) ==
    /\ Dispatching
    /\ recv_thread' = IF ErrorCaught(err) THEN "alive" ELSE "crashed"
    /\ UNCHANGED <<role, has_winerror, running, socket_open, rcv_running,
                   skip_checker, close_calls, close_ret>>
    /\ UNCHANGED <<senderVars, receiverVars, apiVars, pureVars>>

\* SRReceiver.close(): running is cleared and the skip checker joined.
ReceiverClose ==
    /\ rcv_running' = FALSE
    /\ skip_checker' = "exited"
    /\ UNCHANGED receiverVars

\* Mutant: close toggles the running flag instead of clearing it.
ApiCloseMut ==
    /\ close_calls < MaxCloses
    /\ close_calls' = close_calls + 1
    /\ running' = ~running
    /\ IF role = "sender"
       THEN SenderClose /\ UNCHANGED <<rcv_running, skip_checker>>
       ELSE ReceiverClose /\ UNCHANGED senderVars
    /\ recv_thread' = IF recv_thread = "alive" THEN "exited" ELSE recv_thread
    /\ socket_open' = FALSE
    /\ close_ret' = <<"ok">>
    /\ UNCHANGED <<role, has_winerror>>
    /\ UNCHANGED <<apiVars, pureVars>>

\* GameNetAPI.close(): running is cleared, the sub-sender or sub-receiver is
\* closed, the dispatcher thread is joined if it is alive (it leaves its loop
\* at the next test of self.running, within the 0.5 s receive timeout and
\* the 2 s join timeout), and the socket is closed.
ApiClose ==
    /\ close_calls < MaxCloses
    /\ close_calls' = close_calls + 1
    /\ running' = FALSE
    /\ IF role = "sender"
       THEN SenderClose /\ UNCHANGED <<rcv_running, skip_checker>>
       ELSE ReceiverClose /\ UNCHANGED senderVars
    /\ recv_thread' = IF recv_thread = "alive" THEN "exited" ELSE recv_thread
    /\ socket_open' = FALSE
    /\ close_ret' = <<"ok">>
    /\ UNCHANGED <<role, has_winerror>>
    /\ UNCHANGED <<apiVars, pureVars>>

\* ------------------------------------------------- sender, network, receiver
\* Sequence numbers of the DATA packets and ACKs the network delivers; it
\* loses every other one.
SysSeqs == {SeqAdd(b, d) : b \in {0, WINDOW_SIZE}, d \in 0..(MaxSysSends - 1)}

\* Mutant: the network hands over a DATA packet the sender never wrote.
NetDeliverDataMut(seq_no) == OnReceive(seq_no)

\* A DATA packet the sender has written to the socket reaches the
\* receiver's dispatcher, now or later, once or again.
NetDeliverData(seq_no) ==
    /\ seq_no \in DOMAIN tx
    /\ OnReceive(seq_no)

\* An ACK the receiver has written to the socket reaches the sender's
\* dispatcher, now or later, once or again.
NetDeliverAck(ack_no) ==
    /\ ack_no \in acks_out
    /\ OnAck(ack_no)

\* ---------------------------------------------------------------- packet.py
\* struct.pack('!H' / '!I', v): the n bytes of v, most significant first.
BigEndian(v, n) == [i \in 1..n |-> (v \div (256 ^ (n - i))) % 256]

\* struct.unpack('!H' / '!I', bytes): the integer the bytes stand for.
RECURSIVE FromBigEndian(_)
FromBigEndian(bytes) ==
    IF bytes = <<>> THEN 0
    ELSE 256 * FromBigEndian(SubSeq(bytes, 1, Len(bytes) - 1))
            + bytes[Len(bytes)]

\* len(struct.pack('!BHIH', ...))
HeaderLen == 9

\* Mutant: the sequence number is masked to its low byte.
EncodeDataPacketMut(channel_type, seq_no, timestamp, payload) ==
    <<channel_type>> \o BigEndian(seq_no % 256, 2)
        \o BigEndian(timestamp, 4) \o BigEndian(Len(payload), 2)
        \o payload

\* encode_data_packet(channel_type, seq_no, payload) when the clock reads
\* timestamp and the payload fits: header + payload.
EncodeDataPacket(channel_type, seq_no, timestamp, payload) ==
    <<channel_type>> \o BigEndian(seq_no % MAX_SEQ_NUM, 2)
        \o BigEndian(timestamp, 4) \o BigEndian(Len(payload), 2)
        \o payload

\* packet_bytes[a:b] for 0 <= a <= b: the bytes a .. b-1, cut at the end.
Slice(packet_bytes, a, b) ==
    SubSeq(packet_bytes, a + 1,
           IF b < Len(packet_bytes) THEN b ELSE Len(packet_bytes))

\* The payload_len field that struct.unpack reads from the header.
PayloadLenField(packet_bytes) == FromBigEndian(Slice(packet_bytes, 7, 9))

\* decode_data_packet: the two raise ValueError statements.
DecodeRaises(packet_bytes) ==
    \/ Len(packet_bytes) < HeaderLen
    \/ Len(Slice(packet_bytes, HeaderLen,
                 HeaderLen + PayloadLenField(packet_bytes)))
          # PayloadLenField(packet_bytes)

\* decode_data_packet(packet_bytes) when it does not raise.
DecodeDataPacket(packet_bytes) ==
    [channel_type |-> packet_bytes[1],
     seq_no |-> FromBigEndian(Slice(packet_bytes, 1, 3)),
     timestamp |-> FromBigEndian(Slice(packet_bytes, 3, 7)),
     payload |-> Slice(packet_bytes, HeaderLen,
                       HeaderLen + PayloadLenField(packet_bytes))]

\* Sequence numbers passed to the encoder: the ends of the 16-bit range and
\* values whose two bytes differ.
CodecSeqs == {0, 255, 256, MAX_SEQ_NUM - 1}

\* Payload lengths passed to the encoder: empty, one byte, lengths whose
\* two length bytes differ, the largest that fits and the first that does not.
CodecLens == {0, 1, 255, 256} \cup PayloadLens

\* A payload of len bytes, no two neighbours equal.
CodecPayload(len) == [i \in 1..len |-> (7 * i) % 256]

\* Readings of int(time.time() * 1000) & 0xFFFFFFFF, among those below 2^31
\* (the integers of the model checker end there): one whose four bytes
\* differ, and the largest.
Timestamps == {16909060, 2147483647}

\* The encoder is called with the arguments drawn in the start state.
CodecEncode(timestamp) ==
    /\ wire = <<>>
    /\ raised = "none"
    /\ IF EncodeRaises(Len(codec_args.payload))
       THEN raised' = "encode" /\ wire' = wire
       ELSE /\ wire' = <<EncodeDataPacket(codec_args.channel_type,
                                         codec_args.seq_no, timestamp,
                                         codec_args.payload)>>
            /\ raised' = raised
    /\ UNCHANGED <<codec_args, tampered, decoded>>

\* A datagram is on its way to the decoder.
InFlight == wire # <<>> /\ decoded = <<>> /\ raised = "none"

\* A peer writes the datagram without its last byte.
WireTruncate ==
    /\ InFlight
    /\ wire[1] # <<>>
    /\ tampered \in (1 - MaxTamper)..0
    /\ wire' = <<SubSeq(wire[1], 1, Len(wire[1]) - 1)>>
    /\ tampered' = tampered - 1
    /\ UNCHANGED <<codec_args, decoded, raised>>

\* A peer writes the datagram with one more byte at its end.
WirePad ==
    /\ InFlight
    /\ tampered \in 0..(MaxTamper - 1)
    /\ wire' = <<Append(wire[1], 0)>>
    /\ tampered' = tampered + 1
    /\ UNCHANGED <<codec_args, decoded, raised>>

\* The dispatcher hands the datagram to decode_data_packet.
CodecDecode ==
    /\ InFlight
    /\ IF DecodeRaises(wire[1])
       THEN raised' = "decode" /\ decoded' = decoded
       ELSE decoded' = <<DecodeDataPacket(wire[1])>> /\ raised' = raised
    /\ UNCHANGED <<codec_args, wire, tampered>>

\* The arguments of the encoder call under test.
CodecInit ==
    /\ codec_args \in [channel_type : {CHANNEL_RELIABLE, CHANNEL_UNRELIABLE},
                       seq_no : CodecSeqs,
                       payload : {CodecPayload(len) : len \in CodecLens}]
    /\ wire = <<>>
    /\ tampered = 0
    /\ decoded = <<>>
    /\ raised = "none"

\* No codec call under test.
CodecIdle ==
    /\ codec_args = [channel_type |-> CHANNEL_RELIABLE, seq_no |-> 0,
                     payload |-> <<>>]
    /\ wire = <<>>
    /\ tampered = 0
    /\ decoded = <<>>
    /\ raised = "none"

\* ------------------------------------------- sr_receiver.py, comparators
\* Arguments of the comparators: the ends of the 16-bit range and the
\* values around half of it.
CompareSeqs ==
    (0..CompareMargin)
        \cup (((MAX_SEQ_NUM \div 2) - CompareMargin)
                ..((MAX_SEQ_NUM \div 2) + CompareMargin))
        \cup ((MAX_SEQ_NUM - 1 - CompareMargin)..(MAX_SEQ_NUM - 1))

\* _seq_less_than(seq_a, seq_b) and _seq_greater_equal(seq_a, seq_b)
Compare ==
    /\ compared = <<>>
    /\ compared' = <<[less_than |-> SeqLessThan(cmp_a, cmp_b),
                      greater_equal |-> SeqGreaterEqual(cmp_a, cmp_b)]>>
    /\ UNCHANGED <<cmp_a, cmp_b>>

\* The arguments of the comparator calls under test.
CompareInit ==
    /\ cmp_a \in CompareSeqs
    /\ cmp_b \in CompareSeqs
    /\ compared = <<>>

\* No comparator call under test.
CompareIdle ==
    /\ cmp_a = 0
    /\ cmp_b = 0
    /\ compared = <<>>

\* No application thread is inside GameNetAPI.send.
ThreadsIdle ==
    /\ thr_pc = [t \in Threads |-> "idle"]
    /\ thr_seq = [t \in Threads |-> 0]
    /\ thr_load = [t \in Threads |-> 0]

\* threading.Lock() twice, and no thread in a handler.
LocksFree ==
    /\ lock_owner = [l \in Locks |-> "free"]
    /\ lk_pc = [t \in LockThreads |-> "idle"]
    /\ lk_after = [t \in LockThreads |-> FALSE]
    /\ lk_left = [t \in LockThreads |-> 0]

PureIdle == CodecIdle /\ CompareIdle /\ ThreadsIdle /\ LocksFree

\* ------------------------------------------------------------- start states
\* SRSender.__init__
SenderFresh ==
    /\ send_base = 0
    /\ next_seq = 0
    /\ send_buffer = EmptyMap
    /\ acked = {}
    /\ timers = EmptyMap
    /\ callbacks = {}
    /\ tx = EmptyMap
    /\ timer_interval = EmptyMap
    /\ sender_timeout = RETRY_INTERVAL

\* After WINDOW_SIZE - 1 sends of which every ACK but the one for sequence 0
\* has arrived: the window is one short of full behind a single live entry.
SenderBlocked ==
    /\ send_base = 0
    /\ next_seq = WINDOW_SIZE - 1
    /\ send_buffer = [x \in {0} |-> 0]
    /\ acked = 1..(WINDOW_SIZE - 2)
    /\ timers = [x \in {0} |-> "armed"]
    /\ timer_interval = [x \in {0} |-> RETRY_INTERVAL]
    /\ sender_timeout = RETRY_INTERVAL
    /\ callbacks = {}
    /\ tx = [x \in 0..(WINDOW_SIZE - 2) |-> 1]

\* After MAX_SEQ_NUM - WrapMargin sends of which 0 and 1 were acknowledged
\* and every other one was skipped after its retry.
SenderPreWrap ==
    /\ send_base = MAX_SEQ_NUM - WrapMargin
    /\ next_seq = MAX_SEQ_NUM - WrapMargin
    /\ send_buffer = EmptyMap
    /\ acked = {0, 1}
    /\ timers = EmptyMap
    /\ callbacks = {}
    /\ tx = EmptyMap
    /\ timer_interval = EmptyMap
    /\ sender_timeout = RETRY_INTERVAL

\* SRSender.__init__ with a sender_timeout other than the default.
SenderConfigured ==
    /\ send_base = 0
    /\ next_seq = 0
    /\ send_buffer = EmptyMap
    /\ acked = {}
    /\ timers = EmptyMap
    /\ callbacks = {}
    /\ tx = EmptyMap
    /\ timer_interval = EmptyMap
    /\ sender_timeout = ConfiguredTimeout

SenderInit ==
    /\ SenderFresh \/ SenderBlocked \/ SenderPreWrap \/ SenderConfigured
    /\ send_ret = <<>>
    /\ sends = 0
    /\ closed = FALSE

\* SRReceiver.__init__ and GameNetAPI.__init__
ReceiverFresh ==
    /\ rcv_base = 0
    /\ delivered = {}

\* What self.delivered holds when rcv_base first stands WrapMargin below the
\* wrap after this run of the network: 0 arrived in order, then of every
\* WINDOW_SIZE - 1 sequences only the last one arrived (and was received
\* again after each skip) while the skip timer abandoned the others.
PreWrapDelivered ==
    {0} \cup {k \in 1..(MAX_SEQ_NUM - WrapMargin - 1) :
                (MAX_SEQ_NUM - WrapMargin - 1 - k) % (WINDOW_SIZE - 1) = 0}

ReceiverPreWrap ==
    /\ rcv_base = MAX_SEQ_NUM - WrapMargin
    /\ delivered = PreWrapDelivered

ReceiverInit ==
    /\ ReceiverFresh \/ ReceiverPreWrap
    /\ rcv_buffer = {}
    /\ waiting_since = EmptyMap
    /\ delivery_queue = <<>>
    /\ app_log = <<>>
    /\ skipped = {}
    /\ seen = {}
    /\ last_recv = <<>>
    /\ acks_out = {}
    /\ u_arrivals = <<>>

\* GameNetAPI.__init__ on the sender role with no tracking file on disk, and
\* UnreliableSender.__init__
ApiFresh ==
    /\ u_next_seq = 0
    /\ u_tx = <<>>
    /\ u_ret = <<>>
    /\ sent_packets = EmptyMap
    /\ api_ret = <<>>

\* The facade after the WINDOW_SIZE - 1 reliable sends that lead to
\* SenderBlocked.
ApiBlocked ==
    /\ u_next_seq = 0
    /\ u_tx = <<>>
    /\ u_ret = <<>>
    /\ sent_packets = [k \in 0..(WINDOW_SIZE - 2) |->
                          [reliable |-> TRUE, acked |-> k # 0]]
    /\ api_ret = <<WINDOW_SIZE - 2>>

\* GameNetAPI.__init__ for role r: running set, dispatcher started, and on
\* the receiver role SRReceiver.__init__ with its skip checker started.
LifeFresh(r) ==
    /\ role = r
    /\ running = TRUE
    /\ recv_thread = "alive"
    /\ socket_open = TRUE
    /\ rcv_running = (r = "receiver")
    /\ skip_checker = IF r = "receiver" THEN "alive" ELSE "none"
    /\ close_calls = 0
    /\ close_ret = <<>>

\* After WINDOW_SIZE sends of which every ACK but the one for sequence 0
\* has arrived: the window is full behind a single live entry.
SenderFull ==
    /\ send_base = 0
    /\ next_seq = WINDOW_SIZE
    /\ send_buffer = [x \in {0} |-> 0]
    /\ acked = 1..(WINDOW_SIZE - 1)
    /\ timers = [x \in {0} |-> "armed"]
    /\ timer_interval = [x \in {0} |-> RETRY_INTERVAL]
    /\ sender_timeout = RETRY_INTERVAL
    /\ callbacks = {}
    /\ tx = [x \in 0..(WINDOW_SIZE - 1) |-> 1]

\* The receiver that faces SenderFull: of the sequences 0 .. WINDOW_SIZE - 1
\* every one but 0 arrived, in order, and was buffered and ACKed.
ReceiverFull ==
    /\ rcv_base = 0
    /\ delivered = {}
    /\ rcv_buffer = 1..(WINDOW_SIZE - 1)
    /\ waiting_since = [x \in {0} |-> 0]
    /\ delivery_queue = <<>>
    /\ app_log = <<>>
    /\ skipped = {}
    /\ seen = 1..(WINDOW_SIZE - 1)
    /\ last_recv = <<[seq_no |-> WINDOW_SIZE - 1, class |-> "buffer",
                      ack |-> TRUE]>>
    /\ acks_out = 1..(WINDOW_SIZE - 1)
    /\ u_arrivals = <<>>

\* A sender and a receiver that both started at sequence 0, joined by the
\* network: just constructed, or after the exchange that leads to
\* SenderFull and ReceiverFull.
SystemInit ==
    /\ \/ SenderFresh /\ ReceiverFresh /\ ReceiverInit
       \/ SenderFull /\ ReceiverFull
    /\ send_ret = <<>>
    /\ sends = 0
    /\ closed = FALSE
    /\ ApiFresh
    /\ LifeFresh("sender")
    /\ has_winerror = FALSE
    /\ PureIdle

\* The sender under test; the receiver object is not driven.
SenderOnlyInit ==
    /\ SenderInit
    /\ ReceiverInit
    /\ ReceiverFresh
    /\ ApiFresh
    /\ LifeFresh("sender")
    /\ has_winerror = FALSE
    /\ PureIdle

\* The receiver under test; the sender object is not driven.
ReceiverOnlyInit ==
    /\ ReceiverInit
    /\ SenderInit
    /\ SenderFresh
    /\ ApiFresh
    /\ LifeFresh("receiver")
    /\ has_winerror = FALSE
    /\ PureIdle

\* The facade on the sender role under test.
ApiSenderInit ==
    /\ (SenderFresh /\ ApiFresh) \/ (SenderBlocked /\ ApiBlocked)
    /\ send_ret = <<>>
    /\ sends = 0
    /\ closed = FALSE
    /\ ReceiverInit
    /\ ReceiverFresh
    /\ LifeFresh("sender")
    /\ has_winerror = FALSE
    /\ PureIdle

\* A facade of either role on either kind of platform, just constructed.
FacadeInit ==
    /\ SenderInit
    /\ SenderFresh
    /\ ReceiverInit
    /\ ReceiverFresh
    /\ ApiFresh
    /\ \E r \in {"sender", "receiver"} : LifeFresh(r)
    /\ has_winerror \in BOOLEAN
    /\ PureIdle

\* ---------------------------------------- sender and receiver at the wrap
\* The i-th sequence number assigned after the start WrapMargin below the
\* wrap: seq_no = self.next_seq, then next_seq = (next_seq + 1) % MAX_SEQ_NUM.
WrapSeq(i) == SeqAdd(MAX_SEQ_NUM - WrapMargin, i)

\* The DATA packet a network that neither loses nor reorders hands to the
\* receiver's dispatcher next: the oldest one it has not yet handed over.
NetDeliverInOrder == NetDeliverData(WrapSeq(Cardinality(seen)))

\* A sender and a receiver that both started at sequence 0 and now stand
\* WrapMargin below the wrap.
WrapInit ==
    /\ SenderPreWrap
    /\ ReceiverPreWrap
    /\ ReceiverInit
    /\ send_ret = <<>>
    /\ sends = 0
    /\ closed = FALSE
    /\ ApiFresh
    /\ LifeFresh("sender")
    /\ has_winerror = FALSE
    /\ PureIdle

\* Sender and receiver joined by a network under normal conditions: every
\* DATA packet arrives once and in order, every ACK the receiver wrote
\* arrives, at any time.
WrapNext ==
    \/ SendOk /\ UNCHANGED facadeVars
    \/ NetDeliverInOrder /\ UNCHANGED facadeVars
    \/ \E ack_no \in acks_out : NetDeliverAck(ack_no) /\ UNCHANGED facadeVars
    \/ \E seq_no \in DOMAIN timers : TimerFire(seq_no) /\ UNCHANGED facadeVars
    \/ \E seq_no \in callbacks : OnTimeout(seq_no) /\ UNCHANGED facadeVars

\* The codec alone: one encoder call, the datagram on its way, one decoder
\* call.
CodecNext ==
    \/ \E timestamp \in Timestamps :
          CodecEncode(timestamp) /\ UNCHANGED <<objectVars, compareVars, threadVars, lockVars>>
    \/ WireTruncate /\ UNCHANGED <<objectVars, compareVars, threadVars, lockVars>>
    \/ WirePad /\ UNCHANGED <<objectVars, compareVars, threadVars, lockVars>>
    \/ CodecDecode /\ UNCHANGED <<objectVars, compareVars, threadVars, lockVars>>

\* The comparators alone.
CompareNext == Compare /\ UNCHANGED <<objectVars, codecVars, threadVars, lockVars>>

\* Every object but the one under test, just constructed.
ObjectsFresh ==
    /\ SenderInit
    /\ SenderFresh
    /\ ReceiverInit
    /\ ReceiverFresh
    /\ ApiFresh
    /\ LifeFresh("sender")
    /\ has_winerror = FALSE

CodecOnlyInit ==
    ObjectsFresh /\ CodecInit /\ CompareIdle /\ ThreadsIdle /\ LocksFree

CompareOnlyInit ==
    ObjectsFresh /\ CodecIdle /\ CompareInit /\ ThreadsIdle /\ LocksFree

\* UnreliableSender.__init__, or the sender after MAX_SEQ_NUM - WrapMargin
\* sends; beside it a reliable sender just constructed.
UnreliableSenderInit ==
    /\ SenderInit
    /\ SenderFresh
    /\ ReceiverInit
    /\ ReceiverFresh
    /\ u_next_seq \in {0, MAX_SEQ_NUM - WrapMargin}
    /\ u_tx = <<>>
    /\ u_ret = <<>>
    /\ sent_packets = EmptyMap
    /\ api_ret = <<>>
    /\ LifeFresh("sender")
    /\ has_winerror = FALSE
    /\ PureIdle

\* The two sub-senders of one facade, called directly: unreliable sends on
\* a socket whose writes can fail, between reliable sends and their ACKs.
UnreliableSenderNext ==
    \/ \E len \in PayloadLens :
          /\ UnreliableSend(len)
          /\ Len(u_tx') <= MaxUnreliableBurst
          /\ UNCHANGED <<sent_packets, api_ret, lifeVars, pureVars>>
    \/ /\ UnreliableSendSockFail
       /\ UNCHANGED <<sent_packets, api_ret, lifeVars, pureVars>>
    \/ SendOk /\ UNCHANGED facadeVars
    \/ \E ack_no \in AckInputs : OnAck(ack_no) /\ UNCHANGED facadeVars

\* A facade of the receiver role, just constructed.
UnreliableReceiverInit == ReceiverOnlyInit /\ ReceiverFresh

\* The two receivers of one facade, called directly: unreliable and
\* reliable DATA frames arrive in any order, and the application dequeues.
UnreliableReceiverNext ==
    \/ \E seq_no \in 0..(MaxFacadeSeq - 1) :
          /\ UnreliableReceive(seq_no)
          /\ Len(u_arrivals') <= MaxUnreliableArrivals
          /\ UNCHANGED facadeVars
    \/ \E seq_no \in 0..(MaxFacadeSeq - 1) :
          OnReceive(seq_no) /\ UNCHANGED facadeVars
    \/ Receive /\ UNCHANGED facadeVars

\* Two application threads about to call GameNetAPI.send(data,
\* reliable=False) on a facade of the sender role that is just constructed
\* or has made MAX_SEQ_NUM - WrapMargin unreliable sends.
ConcurrentSendInit == UnreliableSenderInit

ConcurrentSendNext ==
    \/ \E t \in Threads :
          ThreadNumber(t)
              /\ UNCHANGED <<senderVars, receiverVars, lifeVars, codecVars,
                             compareVars, lockVars>>
    \/ \E t \in Threads :
          ThreadSendto(t)
              /\ UNCHANGED <<senderVars, receiverVars, lifeVars, codecVars,
                             compareVars, lockVars>>
    \/ \E t \in Threads :
          ThreadEncodeRaises(t)
              /\ UNCHANGED <<senderVars, receiverVars, lifeVars, codecVars,
                             compareVars, lockVars>>
    \/ \E t \in Threads :
          ThreadLoad(t)
              /\ UNCHANGED <<senderVars, receiverVars, lifeVars, codecVars,
                             compareVars, lockVars>>
    \/ \E t \in Threads :
          ThreadStore(t)
              /\ UNCHANGED <<senderVars, receiverVars, lifeVars, codecVars,
                             compareVars, lockVars>>
    \/ \E t \in Threads :
          ThreadTrack(t)
              /\ UNCHANGED <<senderVars, receiverVars, lifeVars, codecVars,
                             compareVars, lockVars>>

\* The threads of one facade of either role, no handler entered yet.
LockInit == FacadeInit /\ has_winerror = FALSE

\* The handlers of a facade as far as they take and leave locks.
LockNext ==
    \/ \E t \in LockThreads : \E c \in LockCalls(t) :
          LkCall(t, c)
              /\ UNCHANGED <<objectVars, codecVars, compareVars, threadVars>>
    \/ \E t \in LockThreads :
          LkAcquire(t)
              /\ UNCHANGED <<objectVars, codecVars, compareVars, threadVars>>
    \/ \E t \in LockThreads :
          LkDeliver(t)
              /\ UNCHANGED <<objectVars, codecVars, compareVars, threadVars>>
    \/ \E t \in LockThreads :
          LkAcquireNested(t)
              /\ UNCHANGED <<objectVars, codecVars, compareVars, threadVars>>
    \/ \E t \in LockThreads :
          LkReleaseNested(t)
              /\ UNCHANGED <<objectVars, codecVars, compareVars, threadVars>>
    \/ \E t \in LockThreads :
          LkRelease(t)
              /\ UNCHANGED <<objectVars, codecVars, compareVars, threadVars>>
    \/ \E t \in LockThreads :
          LkAcquireTracking(t)
              /\ UNCHANGED <<objectVars, codecVars, compareVars, threadVars>>
    \/ \E t \in LockThreads :
          LkReleaseTracking(t)
              /\ UNCHANGED <<objectVars, codecVars, compareVars, threadVars>>

SenderNext ==
    \/ SendFull /\ UNCHANGED facadeVars
    \/ SendOk /\ UNCHANGED facadeVars
    \/ \E ack_no \in AckInputs : OnAck(ack_no) /\ UNCHANGED facadeVars
    \/ \E seq_no \in DOMAIN timers : TimerFire(seq_no) /\ UNCHANGED facadeVars
    \/ \E seq_no \in callbacks : OnTimeout(seq_no) /\ UNCHANGED facadeVars

ReceiverNext ==
    \/ \E seq_no \in RecvInputs : OnReceive(seq_no) /\ UNCHANGED facadeVars
    \/ Tick /\ UNCHANGED facadeVars
    \/ CheckSkip /\ UNCHANGED facadeVars
    \/ Receive /\ UNCHANGED facadeVars

ApiSenderNext ==
    \/ \E len \in PayloadLens, reliable \in BOOLEAN :
          /\ ApiSend(len, reliable)
          /\ sends' <= MaxApiSends
          /\ Len(u_tx') <= MaxUnreliableSends
          /\ UNCHANGED <<lifeVars, pureVars>>
    \/ \E ack_no \in AckInputs : DispatchAck(ack_no) /\ UNCHANGED <<lifeVars, pureVars>>
    \/ \E seq_no \in DOMAIN timers : TimerFire(seq_no) /\ UNCHANGED facadeVars
    \/ \E seq_no \in callbacks : OnTimeout(seq_no) /\ UNCHANGED facadeVars

\* The sender on a socket whose writes can fail.
FaultySenderNext ==
    \/ SenderNext
    \/ SendSockFail /\ UNCHANGED facadeVars
    \/ \E seq_no \in callbacks : OnTimeoutSockFail(seq_no) /\ UNCHANGED facadeVars

\* The sender until and after close(): the application sends no more once
\* it has closed the sender, while ACKs and Timer threads go on.
ClosingSenderNext ==
    \/ ~closed /\ SendFull /\ UNCHANGED facadeVars
    \/ ~closed /\ SendOk /\ UNCHANGED facadeVars
    \/ \E ack_no \in AckInputs : OnAck(ack_no) /\ UNCHANGED facadeVars
    \/ \E seq_no \in DOMAIN timers : TimerFire(seq_no) /\ UNCHANGED facadeVars
    \/ \E seq_no \in callbacks : OnTimeout(seq_no) /\ UNCHANGED facadeVars
    \/ ~closed /\ SenderClose /\ UNCHANGED facadeVars

\* A facade of either role with its threads: the application (send, receive,
\* close), the dispatcher, the Timer threads and the skip checker.  The
\* application does not send after it has called close.
FacadeNext ==
    \/ \E len \in PayloadLens, reliable \in BOOLEAN :
          /\ role = "sender"
          /\ close_calls = 0
          /\ ApiSend(len, reliable)
          /\ sends' <= MaxFacadeSends
          /\ Len(u_tx') <= MaxUnreliableSends
          /\ UNCHANGED <<lifeVars, pureVars>>
    \/ \E ack_no \in AckInputs : SenderRecvAck(ack_no)
    \/ SenderRecvData
    \/ \E seq_no \in DOMAIN timers : TimerFire(seq_no) /\ UNCHANGED facadeVars
    \/ \E seq_no \in callbacks :
          /\ OnTimeout(seq_no)
          /\ socket_open \/ tx' = tx
          /\ UNCHANGED facadeVars
    \/ \E seq_no \in callbacks :
          /\ ~socket_open
          /\ OnTimeoutSockFail(seq_no)
          /\ UNCHANGED facadeVars
    \/ ReceiverRecvAck
    \/ \E channel \in Channels, seq_no \in 0..(MaxFacadeSeq - 1) :
          /\ ReceiverRecvData(channel, seq_no)
          /\ Len(u_arrivals') <= MaxUnreliableRecv
    \/ Tick /\ UNCHANGED facadeVars
    \/ skip_checker = "alive" /\ CheckSkip /\ UNCHANGED facadeVars
    \/ Receive /\ UNCHANGED facadeVars
    \/ \E err \in DispatchErrors : DispatchError(err)
    \/ ApiClose

\* Sender and receiver joined by a network that loses, duplicates, delays
\* and reorders packets but creates none; the records delivered stay on the
\* delivery queue.
SystemNext ==
    \/ SendFull /\ UNCHANGED facadeVars
    \/ SendOk /\ sends' <= MaxSysSends /\ UNCHANGED facadeVars
    \/ \E ack_no \in SysSeqs : NetDeliverAck(ack_no) /\ UNCHANGED facadeVars
    \/ \E seq_no \in DOMAIN timers : TimerFire(seq_no) /\ UNCHANGED facadeVars
    \/ \E seq_no \in callbacks : OnTimeout(seq_no) /\ UNCHANGED facadeVars
    \/ \E seq_no \in SysSeqs : NetDeliverData(seq_no) /\ UNCHANGED facadeVars
    \/ Tick /\ UNCHANGED facadeVars
    \/ CheckSkip /\ UNCHANGED facadeVars

SenderSpec == SenderOnlyInit /\ [][SenderNext]_vars

SystemSpec == SystemInit /\ [][SystemNext]_vars

ClosingSenderSpec == SenderOnlyInit /\ [][ClosingSenderNext]_vars

FaultySenderSpec == SenderOnlyInit /\ [][FaultySenderNext]_vars

ReceiverSpec == ReceiverOnlyInit /\ [][ReceiverNext]_vars

ApiSenderSpec == ApiSenderInit /\ [][ApiSenderNext]_vars

FacadeSpec == FacadeInit /\ [][FacadeNext]_vars

WrapSpec == WrapInit /\ [][WrapNext]_vars

CodecSpec == CodecOnlyInit /\ [][CodecNext]_vars

CompareSpec == CompareOnlyInit /\ [][CompareNext]_vars

UnreliableSenderSpec == UnreliableSenderInit /\ [][UnreliableSenderNext]_vars

UnreliableReceiverSpec ==
    UnreliableReceiverInit /\ [][UnreliableReceiverNext]_vars

ConcurrentSendSpec == ConcurrentSendInit /\ [][ConcurrentSendNext]_vars

LockSpec == LockInit /\ [][LockNext]_vars

\* A thread inside a with-block runs on to its end, and a thread waiting
\* for a lock that is released again and again gets it.
LockFairness ==
    \A t \in LockThreads :
        /\ WF_vars(LkDeliver(t)
              /\ UNCHANGED <<objectVars, codecVars, compareVars, threadVars>>)
        /\ WF_vars(LkReleaseNested(t)
              /\ UNCHANGED <<objectVars, codecVars, compareVars, threadVars>>)
        /\ WF_vars(LkRelease(t)
              /\ UNCHANGED <<objectVars, codecVars, compareVars, threadVars>>)
        /\ WF_vars(LkReleaseTracking(t)
              /\ UNCHANGED <<objectVars, codecVars, compareVars, threadVars>>)
        /\ SF_vars(LkAcquire(t)
              /\ UNCHANGED <<objectVars, codecVars, compareVars, threadVars>>)
        /\ SF_vars(LkAcquireNested(t)
              /\ UNCHANGED <<objectVars, codecVars, compareVars, threadVars>>)
        /\ SF_vars(LkAcquireTracking(t)
              /\ UNCHANGED <<objectVars, codecVars, compareVars, threadVars>>)

LiveLockSpec == LockSpec /\ LockFairness

\* A started Timer thread reaches the end of its interval, and a callback
\* waiting for the sender lock gets it.
SenderFairness ==
    /\ WF_vars(\E seq_no \in DOMAIN timers :
                  TimerFire(seq_no) /\ UNCHANGED facadeVars)
    /\ WF_vars(\E seq_no \in callbacks :
                  OnTimeout(seq_no) /\ UNCHANGED facadeVars)

LiveSenderSpec == SenderSpec /\ SenderFairness

\* Time goes by, and the skip checker thread keeps running its loop.
ReceiverFairness ==
    /\ WF_vars(Tick /\ UNCHANGED facadeVars)
    /\ WF_vars(CheckSkip /\ UNCHANGED facadeVars)

LiveReceiverSpec == ReceiverSpec /\ ReceiverFairness

\* ------------------------------------------------------------------- claims
\* C1: in every reachable state of SRSender the number of in-flight
\* sequences (next_seq - send_base) mod 65536 is at most WINDOW_SIZE.
C1_SenderWindow == Used <= WINDOW_SIZE

\* C1 witness: a send has filled the window exactly, with a live entry in it.
C1_Witness == Used = WINDOW_SIZE /\ sends > 0 /\ DOMAIN send_buffer # {}

\* Sequence numbers a behaviour of the model can assign.
SentSeqs == {SeqAdd(b, d) : b \in {0, WINDOW_SIZE - 1, MAX_SEQ_NUM - WrapMargin},
                            d \in 0..MaxSends}

\* C4: every sequence accepted by SRSender.send eventually leaves
\* send_buffer (acked or skipped), given that armed timers fire and their
\* callbacks run, whether or not an ACK arrives.
C4_EveryEntryTerminates ==
    \A k \in SentSeqs :
        [](k \in DOMAIN send_buffer => <>(k \notin DOMAIN send_buffer))

\* C7: on_ack(k) for a sequence already acknowledged or no longer in
\* send_buffer leaves send_base, next_seq, send_buffer, acked and timers as
\* they were, and on_ack(k) applied twice equals on_ack(k) applied once.
C7_AckIdempotent ==
    \A k \in AckInputs :
        /\ (k \in acked \/ k \notin DOMAIN send_buffer) => AckEffect(AckState, k) = AckState
        /\ AckEffect(AckEffect(AckState, k), k) = AckEffect(AckState, k)

\* C7 witness: an entry was retransmitted, then acknowledged and removed, so
\* that a further ACK for it is a duplicate, while another entry is live.
C7_Witness ==
    \E k \in acked : /\ k \in DOMAIN tx
                      /\ tx[k] = MAX_RETRIES + 1
                      /\ k \notin DOMAIN send_buffer
                      /\ DOMAIN send_buffer # {}

\* The records of log that _on_delivery tagged reliable.
ReliableOf(log) == SelectSeq(log, LAMBDA rec : rec.channel = "reliable")

\* Every record the reliable receiver handed to its delivery callback so far,
\* in order.
DeliveryLog == ReliableOf(app_log \o delivery_queue)

\* The reliable records the application has dequeued, in order.
Dequeued == ReliableOf(app_log)

\* How many records of log carry sequence k.
Count(k, log) == Cardinality({i \in 1..Len(log) : log[i].seq_no = k})

\* Strictly increasing modular order of the sequence numbers of log.
Increasing(log) ==
    \A i \in 1..(Len(log) - 1) : SeqLessThan(log[i].seq_no, log[i + 1].seq_no)

\* C2: the sequence numbers handed to the delivery callback are strictly
\* increasing in modular order: seq_lt(s_i, s_{i+1}) for every i.
C2_DeliveryOrder == Increasing(DeliveryLog)

\* C2 witness: deliveries on both sides of a gap left by the skip timer, the
\* later one made while an earlier record was still undelivered upward.
C2_Witness ==
    /\ Len(DeliveryLog) >= 3
    /\ skipped # {}
    /\ \E i \in 1..(Len(DeliveryLog) - 1) :
          DeliveryLog[i + 1].seq_no # SeqAdd(DeliveryLog[i].seq_no, 1)

\* C3: no reliable sequence number is passed to the delivery callback more
\* than once.
C3_AtMostOnce == \A k \in RecvInputs : Count(k, DeliveryLog) <= 1

\* C3 witness: on_receive was called again with a sequence it had delivered,
\* after the skip timer had fired as well.
C3_Witness ==
    /\ last_recv # <<>>
    /\ last_recv[1].class = "duplicate"
    /\ Count(last_recv[1].seq_no, DeliveryLog) = 1
    /\ skipped # {}

\* C5: a packet held in the receive buffer is eventually delivered by the
\* skip checker advancing rcv_base, even if no further packet arrives.
C5_SkipProgress ==
    \A k \in RecvInputs : [](k \in rcv_buffer => <>(k \notin rcv_buffer))

\* The sequence numbers strictly between a and b in modular order.
Between(a, b) == {SeqAdd(a, d) : d \in 1..(((b - a) % MAX_SEQ_NUM) - 1)}

\* C6: the reliable records the application dequeues through receive() are
\* in strictly increasing modular order, and every sequence number missing
\* between two consecutive ones was abandoned by the receiver skip timer.
C6_DequeueOrder ==
    /\ Increasing(Dequeued)
    /\ \A i \in 1..(Len(Dequeued) - 1) :
          Between(Dequeued[i].seq_no, Dequeued[i + 1].seq_no) \subseteq skipped

\* C6 witness: the application has dequeued two records with a gap between
\* them, one delivered by the dispatcher and one by the skip checker.
C6_Witness ==
    \E i \in 1..(Len(Dequeued) - 1) :
        Between(Dequeued[i].seq_no, Dequeued[i + 1].seq_no) # {}

\* C8 as stated: the second call of on_receive with a sequence leaves exactly
\* one delivery of it, and every call writes an ACK for it.
C8_Original ==
    [][\A k \in RecvInputs :
          OnReceive(k) => /\ last_recv'[1].ack
                          /\ (k \in seen => Count(k, DeliveryLog') = 1)]_vars

\* C8 amended: on_receive called twice with a sequence delivers it at most
\* once, exactly once when a call finds it equal to rcv_base and not in
\* delivered, and writes an ACK on each call that does not find it above the
\* window.
C8_DuplicateData ==
    [][\A k \in RecvInputs :
          OnReceive(k) =>
              /\ Count(k, DeliveryLog') <= 1
              /\ Count(k, DeliveryLog') >= Count(k, DeliveryLog)
              /\ (k = rcv_base /\ k \notin delivered) => Count(k, DeliveryLog') = 1
              /\ ~(/\ k \notin delivered
                   /\ ~SeqLessThan(k, rcv_base)
                   /\ SeqGreaterEqual(k, rcv_base + WINDOW_SIZE))
                    => (last_recv'[1].ack /\ last_recv'[1].seq_no = k)]_vars

\* C8 witness: the second call with a delivered sequence has been made; it
\* wrote an ACK and the sequence stands once in the deliveries.
C8_Witness ==
    /\ last_recv # <<>>
    /\ last_recv[1].class = "duplicate"
    /\ last_recv[1].ack
    /\ last_recv[1].seq_no \in seen
    /\ Count(last_recv[1].seq_no, DeliveryLog) = 1

\* C9: a reliable packet whose sequence is below rcv_base is ACKed and not
\* delivered, and a sequence abandoned by the skip timer is never delivered
\* afterwards.
C9_BelowBase ==
    [][/\ \A k \in RecvInputs :
            (OnReceive(k) /\ SeqLessThan(k, rcv_base)) =>
                /\ last_recv'[1].ack
                /\ last_recv'[1].seq_no = k
                /\ DeliveryLog' = DeliveryLog
                /\ UNCHANGED <<rcv_base, rcv_buffer, delivered>>
       /\ \A k \in skipped : Count(k, DeliveryLog') = Count(k, DeliveryLog)]_vars

\* C9 witness: a sequence the skip timer abandoned has arrived afterwards
\* and was ACKed as an old packet.
C9_Witness ==
    /\ last_recv # <<>>
    /\ last_recv[1].class = "old"
    /\ last_recv[1].seq_no \in skipped
    /\ last_recv[1].ack

\* C10: SRSender.send called while (next_seq - send_base) mod 65536 >= 32
\* returns the WindowFull sentinel, transmits nothing, arms no timer and
\* leaves send_base, next_seq, send_buffer, acked and timers unchanged.
C10_SendOnFullWindow ==
    [][(Used >= WINDOW_SIZE /\ (SendFull \/ SendOk)) =>
          /\ send_ret' = <<WindowFullSentinel>>
          /\ UNCHANGED <<send_base, next_seq, send_buffer, acked, timers, tx>>]_vars

\* C10 witness: a send has returned the sentinel on a full window.
C10_Witness == send_ret = <<WindowFullSentinel>> /\ Used >= WINDOW_SIZE

\* C11: GameNetAPI.send(payload, reliable=True) on a full reliable window
\* leaves the state of the facade, its record of sent packets included, as
\* it was, and every facade send that returns normally returns a sequence
\* number that the call assigned and transmitted.
C11_FacadeSendOnFullWindow ==
    [][\A len \in PayloadLens :
          ApiSend(len, TRUE) =>
              /\ WindowFull => sent_packets' = sent_packets
              /\ api_ret'[1] # RaisedValueError =>
                    /\ api_ret'[1] = next_seq
                    /\ next_seq' = SeqAdd(next_seq, 1)
                    /\ api_ret'[1] \in DOMAIN tx'
                    /\ tx'[api_ret'[1]] = 1]_vars

\* C12 as stated: a send of a payload longer than 1391 bytes, on either
\* channel, ends with the payload-too-large error, transmits nothing and
\* leaves next_seq, send_buffer and timers of the sender unchanged.
C12_Original ==
    [][\A len \in PayloadLens :
          EncodeRaises(len) =>
              /\ ApiSend(len, TRUE) =>
                    /\ send_ret' = <<RaisedValueError>>
                    /\ UNCHANGED <<next_seq, send_buffer, timers, tx>>
              /\ ApiSend(len, FALSE) =>
                    /\ api_ret' = <<RaisedValueError>>
                    /\ UNCHANGED <<u_next_seq, u_tx>>]_vars

\* C12 amended: a send of a payload longer than 1391 bytes transmits nothing
\* and leaves next_seq, send_buffer and timers unchanged; it ends with the
\* payload-too-large error on the unreliable channel and on a reliable
\* window with room, and returns the WindowFull sentinel on a full reliable
\* window, where the window test runs before the encoder.
C12_OversizeSend ==
    [][\A len \in PayloadLens :
          EncodeRaises(len) =>
              /\ ApiSend(len, TRUE) =>
                    /\ send_ret' = IF WindowFull
                                   THEN <<WindowFullSentinel>>
                                   ELSE <<RaisedValueError>>
                    /\ UNCHANGED <<send_base, next_seq, send_buffer, acked,
                                   timers, tx>>
              /\ ApiSend(len, FALSE) =>
                    /\ api_ret' = <<RaisedValueError>>
                    /\ UNCHANGED <<u_next_seq, u_tx>>]_vars

\* C12 witness: an oversize reliable send has raised while entries were
\* outstanding, and the last facade send, after an unreliable packet went
\* out, raised as well.
C12_Witness ==
    /\ send_ret = <<RaisedValueError>>
    /\ api_ret = <<RaisedValueError>>
    /\ u_tx # <<>>
    /\ DOMAIN timers # {}

\* C13: each reliable sequence is written to the socket at most
\* MAX_RETRIES + 1 = 2 times; a timeout of a buffered entry with
\* retry_count < MAX_RETRIES retransmits it once, and a timeout with
\* retry_count >= MAX_RETRIES removes the entry and its timer and slides the
\* window, with nothing reported to the caller of send.
C13_RetryBudget ==
    [][/\ \A k \in DOMAIN tx' : tx'[k] <= MAX_RETRIES + 1
       /\ \A k \in callbacks :
            (OnTimeout(k) /\ k \in DOMAIN send_buffer) =>
                IF send_buffer[k] >= MAX_RETRIES
                THEN /\ k \notin DOMAIN send_buffer'
                     /\ k \notin DOMAIN timers'
                     /\ send_base' = SlideWindow(send_buffer', acked')
                     /\ tx' = tx
                     /\ send_ret' = send_ret
                ELSE /\ tx'[k] = tx[k] + 1
                     /\ send_buffer'[k] = send_buffer[k] + 1
                     /\ send_ret' = send_ret]_vars

\* C14: when the socket write of a retransmission fails inside the timeout
\* handler, a fresh timer is armed for that sequence all the same, so the
\* entry is not left in send_buffer without a pending timer.
C14_RetryWriteFails ==
    [][\A k \in callbacks :
          OnTimeoutSockFail(k) =>
              /\ k \in DOMAIN send_buffer'
              /\ k \in DOMAIN timers'
              /\ timers'[k] = "armed"]_vars

\* C15: when the socket write of the first transmission in SRSender.send
\* fails, the entry of that sequence exists afterwards with its
\* retransmission timer armed.
C15_FirstWriteFails ==
    [][SendSockFail =>
          /\ next_seq \in DOMAIN send_buffer'
          /\ next_seq \in DOMAIN timers'
          /\ timers'[next_seq] = "armed"]_vars

\* C16: once close() has returned on a sender, no retransmission is written
\* to the socket and no retransmission timer is armed, also not by a timer
\* callback that was waiting for the sender lock when close() ran.
C16_QuietAfterClose ==
    [][closed =>
          /\ tx' = tx
          /\ \A k \in DOMAIN timers' : timers'[k] # "armed"]_vars

\* The closed state of a facade: running false, dispatcher stopped, socket
\* closed and, on the receiver role, the skip checker stopped.
ClosedState ==
    /\ ~running
    /\ recv_thread # "alive"
    /\ ~socket_open
    /\ role = "receiver" => (~rcv_running /\ skip_checker = "exited")

\* C17: GameNetAPI.close() called again on a closed facade, in either role,
\* raises no error and leaves running, the dispatcher thread, the skip
\* checker and the socket in the closed state the first call left.
C17_CloseIdempotent ==
    [][(ApiClose /\ close_calls >= 1) =>
          /\ close_ret' = <<"ok">>
          /\ ClosedState
          /\ ClosedState'
          /\ UNCHANGED <<running, recv_thread, socket_open, rcv_running,
                         skip_checker>>]_vars

\* C17 witness: close has returned twice on a receiver that holds a
\* buffered packet, a queued record and a dispatcher stopped by the first
\* call.
C17_Witness ==
    /\ close_calls = 2
    /\ close_ret = <<"ok">>
    /\ role = "receiver"
    /\ recv_thread = "exited"
    /\ rcv_buffer # {}
    /\ delivery_queue # <<>>

\* C18: the dispatcher loop of either role is still running after every
\* error raised while a datagram is read or handled, and it stops only
\* once the running flag of the facade is false.
C18_DispatcherSurvives ==
    [][/\ \A err \in DispatchErrors :
            DispatchError(err) => recv_thread' = "alive"
       /\ (recv_thread = "alive" /\ recv_thread' # "alive") => ~running']_vars

\* C19: on the receiver role an ACK frame changes nothing, a DATA frame of
\* channel 0x00 is handled by the reliable receiver alone, one of channel
\* 0x01 by the unreliable receiver alone, and one of another channel byte is
\* dropped with no state change and no ACK; on the sender role an ACK frame
\* is handed to on_ack of the reliable sender.
C19_Routing ==
    [][/\ ReceiverRecvAck => UNCHANGED <<receiverVars, senderVars>>
       /\ \A seq_no \in 0..(MaxFacadeSeq - 1) :
            /\ ReceiverRecvData(CHANNEL_RELIABLE, seq_no) =>
                  /\ RcvCommit(ReceiveEffect(RcvState, seq_no))
                  /\ last_recv'[1].seq_no = seq_no
                  /\ UnreliableOf(delivery_queue') = UnreliableOf(delivery_queue)
            /\ ReceiverRecvData(CHANNEL_UNRELIABLE, seq_no) =>
                  /\ delivery_queue' = Append(delivery_queue, Unreliable(seq_no))
                  /\ UNCHANGED <<rcv_base, rcv_buffer, delivered,
                                 waiting_since, skipped, seen, last_recv, acks_out>>
            /\ ReceiverRecvData(OtherChannel, seq_no) =>
                  UNCHANGED <<receiverVars, senderVars>>
       /\ \A ack_no \in AckInputs :
            SenderRecvAck(ack_no) => AckState' = AckEffect(AckState, ack_no)]_vars

\* C19 witness: the receiver's dispatcher, still running, has handed a
\* reliable frame to the reliable receiver, which delivered it, and an
\* unreliable frame to the unreliable receiver.
C19_Witness ==
    /\ role = "receiver"
    /\ Dispatching
    /\ last_recv # <<>>
    /\ DeliveryLog # <<>>
    /\ UnreliableOf(app_log \o delivery_queue) # <<>>

\* C20: with sender and receiver both started at sequence 0 and a network
\* that only loses, duplicates, delays or reorders, no reliable DATA packet
\* that reaches the receiver is classified as above the window.
C20_NeverAboveWindow ==
    [][\A seq_no \in SysSeqs :
          NetDeliverData(seq_no) => last_recv'[1].class # "reject"]_vars

\* C21: across the wrap the successful reliable sends are assigned
\* consecutive sequence numbers modulo 65536, and the receiver, handed the
\* packets once each and in order, delivers every one of them in that order
\* and classifies none of them as below or above its window.
C21_WrapsCorrectly ==
    /\ DOMAIN tx = {WrapSeq(i) : i \in 0..(sends - 1)}
    /\ next_seq = WrapSeq(sends)
    /\ ReliableOf(delivery_queue) =
          [i \in 1..Cardinality(seen) |-> Reliable(WrapSeq(i - 1))]
    /\ last_recv # <<>> => last_recv[1].class \notin {"old", "reject"}

\* C22: for either channel, any 16-bit sequence number and any payload of
\* at most 1391 bytes, decoding the datagram the encoder returned does not
\* fail and yields the same channel, sequence number and payload.
C22_CodecRoundtrip ==
    (tampered = 0 /\ ~EncodeRaises(Len(codec_args.payload))) =>
        /\ raised = "none"
        /\ decoded # <<>> =>
              /\ decoded[1].channel_type = codec_args.channel_type
              /\ decoded[1].seq_no = codec_args.seq_no
              /\ decoded[1].payload = codec_args.payload

\* C22 witness: a packet of the unreliable channel whose sequence number
\* and payload length both need the two bytes of their fields, with the
\* largest payload that fits, has been encoded and decoded.
C22_Witness ==
    /\ tampered = 0
    /\ decoded # <<>>
    /\ codec_args.channel_type = CHANNEL_UNRELIABLE
    /\ codec_args.seq_no = 256
    /\ Len(codec_args.payload) = MAX_PAYLOAD_SIZE

\* C23: decode_data_packet fails for every datagram shorter than the 9-byte
\* header and for every datagram whose payload_len field differs from the
\* number of bytes after the header, be they fewer or more: a datagram it
\* decodes is neither.
C23_MalformedRejected ==
    decoded # <<>> =>
        /\ Len(wire[1]) >= HeaderLen
        /\ Len(wire[1]) - HeaderLen = PayloadLenField(wire[1])

\* C24: for 16-bit a and b with (a - b) mod 65536 < 32768,
\* _seq_greater_equal(a, b) is true and _seq_less_than(a, b) is false; and
\* _seq_less_than(a, b) is true exactly when (a - b) mod 65536 > 32768.
C24_SeqOrder ==
    compared # <<>> =>
        LET diff == (cmp_a - cmp_b) % 65536 IN
        /\ diff < 32768 =>
              compared[1].greater_equal /\ ~compared[1].less_than
        /\ compared[1].less_than <=> diff > 32768

\* C24 witness: the comparators have been evaluated on a pair that
\* straddles the wrap, the numerically smaller argument being the later one.
C24_Witness ==
    /\ compared # <<>>
    /\ cmp_a < cmp_b
    /\ (cmp_a - cmp_b) % 65536 < 32768
    /\ compared[1].greater_equal

\* C25: a step in which the unreliable sender transmits is one
\* UnreliableSender.send: it writes exactly one datagram, of channel 0x01
\* and carrying the current next_seq, returns that sequence number and
\* advances next_seq by one modulo 65536; it changes nothing else, in
\* particular nothing of the reliable sender; and next_seq moves in no
\* other step.
C25_UnreliableSend ==
    [][/\ u_tx' # u_tx =>
            /\ u_tx' = Append(u_tx, [channel_type |-> 1,
                                     seq_no |-> u_next_seq])
            /\ u_ret' = <<u_next_seq>>
            /\ u_next_seq' = (u_next_seq + 1) % 65536
            /\ UNCHANGED <<senderVars, receiverVars, sent_packets>>
       /\ u_next_seq' # u_next_seq => u_tx' # u_tx]_vars

\* C25 witness: the unreliable sender has sent the packet numbered 65535
\* and stands at 0 again, while the reliable sender has a packet in flight.
C25_Witness ==
    /\ u_ret = <<MAX_SEQ_NUM - 1>>
    /\ u_next_seq = 0
    /\ Len(u_tx) >= 2
    /\ DOMAIN send_buffer # {}

\* C26: the records tagged unreliable that the receiver has handed up are,
\* one for one and in the same order, the unreliable DATA packets it got,
\* a packet that came twice included twice; and an unreliable arrival
\* changes neither rcv_base nor the reliable buffer nor the delivered set.
C26_UnreliableDelivery ==
    /\ [](LET log == UnreliableOf(app_log \o delivery_queue) IN
          /\ Len(log) = Len(u_arrivals)
          /\ \A i \in 1..Len(log) : log[i].seq_no = u_arrivals[i])
    /\ [][u_arrivals' # u_arrivals =>
            UNCHANGED <<rcv_base, rcv_buffer, delivered, waiting_since>>]_vars

\* C26 witness: the same unreliable packet has arrived twice, with another
\* one in between, while the reliable receiver holds a buffered packet and
\* the application has dequeued a record.
C26_Witness ==
    /\ Len(u_arrivals) = 3
    /\ u_arrivals[1] = u_arrivals[3]
    /\ u_arrivals[1] # u_arrivals[2]
    /\ rcv_buffer # {}
    /\ app_log # <<>>

\* C27: send_base is the oldest outstanding sequence number: every live
\* send_buffer entry lies in [send_base, next_seq) by modular comparison,
\* so send_base has not passed an entry that was neither acked nor
\* skipped; send_base is itself live while any entry is; and with no live
\* entry send_base equals next_seq.  After the wrap as before it.
C27_SendBaseOldest ==
    /\ \A k \in DOMAIN send_buffer :
          (k - send_base) % 65536 < (next_seq - send_base) % 65536
    /\ DOMAIN send_buffer # {} => send_base \in DOMAIN send_buffer
    /\ DOMAIN send_buffer = {} => send_base = next_seq

\* The Timer of entry k has not expired, or it has and its _on_timeout call
\* has yet to run.
Pending(k) ==
    k \in DOMAIN timers /\ (timers[k] = "armed" \/ k \in callbacks)

\* C28: before close, timers and send_buffer have the same keys, and the
\* Timer of every live entry is pending: no live entry is left without a
\* retransmission timer and no timer is left without a live entry.
C28_OneTimerPerEntry ==
    /\ DOMAIN timers = DOMAIN send_buffer
    /\ \A k \in DOMAIN send_buffer : Pending(k)

\* C29: every sequence number in rcv_buffer lies in the receive window
\* [rcv_base, rcv_base + 32) by modular comparison, and none of them is
\* rcv_base itself: between operations the buffered sequences are 1 to 31
\* above rcv_base.
C29_BufferInWindow ==
    \A k \in rcv_buffer :
        /\ (k - rcv_base) % 65536 < 32
        /\ k # rcv_base

\* C29 witness: after a skip just below the wrap and the drain that
\* followed it, rcv_base has wrapped to 0 and a packet received earlier is
\* still buffered above it.
C29_Witness ==
    /\ rcv_base = 0
    /\ rcv_buffer # {}
    /\ skipped # {}
    /\ (MAX_SEQ_NUM - 1) \in delivered

\* C30: waiting_since holds at most one entry, and the key of that entry
\* is the current rcv_base.
C30_OneWaitingEntry ==
    /\ Cardinality(DOMAIN waiting_since) <= 1
    /\ \A k \in DOMAIN waiting_since : k = rcv_base

\* C30 witness: after a skip moved rcv_base onto another gap, a further
\* out-of-order arrival has recorded the wait for the new rcv_base while
\* packets are buffered.
C30_Witness ==
    /\ skipped # {}
    /\ rcv_base \notin skipped
    /\ DOMAIN waiting_since = {rcv_base}
    /\ rcv_buffer # {}

\* The test that on_receive applies last before it ACKs: seq_no is not in
\* delivered, not below rcv_base, and at or above rcv_base + 32.
AboveWindow(seq_no) ==
    /\ seq_no \notin delivered
    /\ (seq_no - rcv_base) % 65536 <= 32768
    /\ (seq_no - (rcv_base + 32)) % 65536 < 32768

\* C31: on_receive writes an ACK carrying the packet's sequence number for
\* every packet that is already delivered, below the window or in the
\* window, whatever it then does with it; for a packet above the window it
\* writes no ACK and leaves rcv_base, rcv_buffer, delivered and
\* waiting_since as they were, and delivers nothing.
C31_AckUnlessAbove ==
    [][\A k \in RecvInputs :
          OnReceive(k) =>
              IF AboveWindow(k)
              THEN /\ ~last_recv'[1].ack
                   /\ acks_out' = acks_out
                   /\ UNCHANGED <<rcv_base, rcv_buffer, delivered,
                                  waiting_since, delivery_queue>>
              ELSE /\ last_recv'[1].ack
                   /\ last_recv'[1].seq_no = k
                   /\ acks_out' = acks_out \cup {k}]_vars

\* C31 witness: with a packet buffered and its ACK written, a packet
\* above the window has arrived and was dropped without an ACK.
C31_Witness ==
    /\ last_recv # <<>>
    /\ last_recv[1].class = "reject"
    /\ ~last_recv[1].ack
    /\ AboveWindow(last_recv[1].seq_no)
    /\ last_recv[1].seq_no \notin acks_out
    /\ rcv_buffer # {}
    /\ rcv_buffer \subseteq acks_out

\* C32: one firing of the receiver skip abandons exactly one sequence, the
\* old rcv_base, which is neither delivered nor added to delivered; it then
\* delivers, in order, the buffered sequences contiguous above it, removes
\* them from the buffer, and leaves rcv_base on the first sequence that is
\* not buffered.
C32_SkipDrains ==
    [][skipped' # skipped =>
          LET n == (rcv_base' - rcv_base - 1) % 65536
              run == [i \in 1..n |-> SeqAdd(rcv_base, i)]
              drained == {run[i] : i \in 1..n}
          IN /\ skipped' = skipped \cup {rcv_base}
             /\ drained \subseteq rcv_buffer
             /\ rcv_base' \notin rcv_buffer
             /\ delivery_queue' =
                   delivery_queue \o [i \in 1..n |-> Reliable(run[i])]
             /\ rcv_buffer' = rcv_buffer \ drained
             /\ delivered' = delivered \cup drained
             /\ rcv_base \notin drained]_vars

\* C32 witness: with 0 missing and 1 and 2 buffered the skip has fired:
\* the deliveries are 1 then 2, rcv_base is 3, and 0 is not in delivered.
C32_Witness ==
    /\ skipped = {0}
    /\ DeliveryLog = <<Reliable(1), Reliable(2)>>
    /\ rcv_base = 3
    /\ 0 \notin delivered
    /\ rcv_buffer = {}

\* C33: a Timer callback that gets the sender lock after its sequence was
\* ACKed, the entry being gone, ends without writing to the socket, arming
\* a Timer or changing send_base, next_seq, send_buffer or acked.
C33_LateCallback ==
    [][\A k \in callbacks :
          (k \notin callbacks' /\ k \in acked /\ k \notin DOMAIN send_buffer)
              => UNCHANGED <<send_base, next_seq, send_buffer, acked, timers,
                             tx>>]_vars

\* C33 witness: the Timer of a packet expired, its callback is waiting for
\* the lock, and on_ack has meanwhile removed the entry and slid the window
\* while another packet is still in flight.
C33_Witness ==
    \E k \in callbacks :
        /\ k \in acked
        /\ k \notin DOMAIN send_buffer
        /\ k \notin DOMAIN timers
        /\ k \in DOMAIN tx
        /\ send_base = SeqAdd(k, 1)
        /\ DOMAIN send_buffer # {}

\* C34: the Timer that SRSender.send arms for a new sequence has the
\* interval self.sender_timeout of the instance, as the Timer armed after a
\* retry has.
C34_SendTimerInterval ==
    [][\A k \in (DOMAIN send_buffer') \ (DOMAIN send_buffer) :
          /\ k \in DOMAIN timer_interval'
          /\ timer_interval'[k] = sender_timeout]_vars

\* How far sequence k lies above base, modulo the sequence space.
Gap(base, k) == (k - base) % MAX_SEQ_NUM

\* The distance from base to the nearest sequence in buf (buf is not empty).
NearestGap(base, buf) ==
    CHOOSE g \in {Gap(base, k) : k \in buf} :
        \A k \in buf : g <= Gap(base, k)

\* C35: whenever waiting_since is non-empty, rcv_buffer is non-empty; so a
\* skip fires only while a sequence at most WINDOW_SIZE - 1 above rcv_base
\* is buffered, and each skip either delivers or brings rcv_base one step
\* nearer to the nearest buffered sequence: at most WINDOW_SIZE - 1
\* sequences are abandoned between two deliveries.
C35_WaitingMeansBuffered ==
    /\ [](DOMAIN waiting_since # {} => rcv_buffer # {})
    /\ [][skipped' # skipped =>
            /\ rcv_buffer # {}
            /\ NearestGap(rcv_base, rcv_buffer) \in 1..(WINDOW_SIZE - 1)
            /\ \/ Len(app_log \o delivery_queue')
                      > Len(app_log \o delivery_queue)
               \/ /\ rcv_buffer' # {}
                  /\ NearestGap(rcv_base', rcv_buffer')
                         = NearestGap(rcv_base, rcv_buffer) - 1]_vars

\* Reached: sequence 0 was abandoned with nothing delivered, and the
\* receiver is waiting again, for 1, with 2 still buffered.
C35_Witness ==
    /\ skipped = {0}
    /\ rcv_base = 1
    /\ DOMAIN waiting_since = {1}
    /\ rcv_buffer = {2}
    /\ delivered = {}

\* C36: a reliable packet that arrives with its sequence number equal to
\* rcv_base is handed to the application by that call of on_receive, also
\* when the same number was delivered in an earlier round of the sequence
\* space.
C36_BaseAlwaysDelivered ==
    [][\A seq_no \in RecvInputs :
          (OnReceive(seq_no) /\ seq_no = rcv_base) =>
              /\ Len(delivery_queue') > Len(delivery_queue)
              /\ delivery_queue'[Len(delivery_queue) + 1] = Reliable(seq_no)
              /\ rcv_base' # rcv_base]_vars

\* C37: an ACK for a sequence that has an entry in send_buffer puts it in
\* acked, removes its Timer and removes the entry, also when the same
\* number was acknowledged in an earlier round of the sequence space.
C37_LiveAckAlwaysTaken ==
    \A ack_no \in DOMAIN send_buffer :
        LET t == AckEffect(AckState, ack_no) IN
        /\ ack_no \in t.acked
        /\ ack_no \notin DOMAIN t.send_buffer
        /\ ack_no \notin DOMAIN t.timers

\* C38: with both peers started at sequence 0 and a network that hands over
\* only packets the sender wrote, rcv_base is never ahead of the sender's
\* next_seq, whether it advanced by a delivery or by a skip.
C38_ReceiverNotAhead ==
    /\ [](rcv_base <= next_seq)
    /\ [][rcv_base' # rcv_base =>
            /\ rcv_base' > rcv_base
            /\ rcv_base' <= next_seq']_vars

\* Reached: the skip of sequence 0 and the drain of the buffer behind it
\* have taken rcv_base up to the sender's next_seq.
C38_Witness ==
    /\ skipped = {0}
    /\ rcv_base = WINDOW_SIZE
    /\ next_seq = WINDOW_SIZE
    /\ Len(delivery_queue) = WINDOW_SIZE - 1

\* C39: two application threads that call GameNetAPI.send(reliable=False)
\* at the same time are given distinct unreliable sequence numbers, and
\* when both calls have returned next_seq has advanced by exactly two (the
\* first datagram written carries the value next_seq had before the calls).
C39_ConcurrentSendsDistinct ==
    /\ \A t1, t2 \in Threads :
          (t1 # t2 /\ thr_pc[t1] = "done" /\ thr_pc[t2] = "done") =>
              thr_seq[t1] # thr_seq[t2]
    /\ (\A t \in Threads : thr_pc[t] = "done") =>
          u_next_seq = SeqAdd(u_tx[1].seq_no, 2)

\* The lock thread t is blocked on, or "none".
WaitsFor(t) ==
    IF lk_pc[t] = "wait_lock" THEN "lock"
    ELSE IF lk_pc[t] \in {"wait_nested", "wait_tracking"} THEN "tracking_lock"
    ELSE "none"

====
